---- MODULE Spec2Model ----
(***************************************************************************)
(* A model of install.py (dotai): the sync engine that installs managed    *)
(* files from the source tree (standards/) into the target tree            *)
(* (~/.claude/) and into the current project, with file backups,           *)
(* timestamped snapshots, restore and uninstall.                           *)
(*                                                                         *)
(* One filesystem variable holds three trees: "src" (SCRIPT_DIR/standards),*)
(* "home" (CLAUDE_HOME) and "cwd" (the working directory).  A path is a    *)
(* record [root, snap, parts, baks]:                                       *)
(*   snap   0, or n for a path under backups/<n>/ (a snapshot directory);  *)
(*   parts  the path components below the root (or below the snapshot);    *)
(*   baks   the ".bak.<timestamp>" suffixes appended to the last component.*)
(* A timestamp (strftime "%Y%m%d-%H%M%S") is the clock's second, a number: *)
(* the format sorts lexicographically as the numbers do.                   *)
(***************************************************************************)
EXTENDS Integers, Sequences, FiniteSets, TLC

VARIABLES
    fs,      \* the filesystem: path -> content, its domain the paths that exist
    now,     \* datetime.now(), to the second
    nops,    \* number of handlers (or engine operations) run so far
    last,    \* the handler that ran last: its name, its inputs, what it returned
    prev,    \* the handler that ran before it, likewise
    pre,     \* the filesystem as it was when the last handler started
    log,     \* the log the last handler returned (a list of (status, label))
    ev,      \* the filesystem mutations and log appends of the last handler, in order
    taken,   \* the last direct call of create_snapshot: what it returned, the
             \* filesystem it started from, the operations called since
    ui       \* the wizard: the InstallerApp's fields, the screen on top, the two
             \* selection lists and their SelectionToggled messages in flight

vars == <<fs, now, nops, last, prev, pre, log, ev, taken, ui>>

-----------------------------------------------------------------------------
(* Bounds *)

MaxClock == 3      \* the clock runs over seconds 2..MaxClock; second 1 is past
MaxOps == 2        \* handlers run one after another (Spec)
MaxRuns == 1       \* install or uninstall runs from an initial tree (SpecRun)
MaxCalls == 2      \* engine operations called one after another (SpecOps)
MaxUi == 5         \* keys and messages the wizard handles (SpecWizard)
MaxRestores == 2   \* snapshots and command-line restores (SpecRestore)
MaxMerges == 1     \* merges and settings installs from one pair of documents (SpecMerge)
MaxChain == 4      \* engine operations on one rule, one after another (SpecChain)

-----------------------------------------------------------------------------
(* Paths *)

P(root, snap, parts) == [root |-> root, snap |-> snap, parts |-> parts, baks |-> <<>>]

NoPath == P("none", 0, <<>>)

SCRIPT_STANDARDS == P("src", 0, <<>>)
HOME_DIR == P("src", 0, <<"home">>)
HOME_CLAUDE_MD == P("src", 0, <<"home", "CLAUDE.md">>)
HOME_RULES_DIR == P("src", 0, <<"home", "rules">>)
AGENTS_DIR == P("src", 0, <<"agents">>)
TASKS_DIR == P("src", 0, <<"tasks">>)
HOME_SETTINGS_JSON == P("src", 0, <<"home", "settings.json">>)
HOME_STATUSLINE == P("src", 0, <<"home", "statusline.sh">>)

CLAUDE_HOME == P("home", 0, <<>>)
CLAUDE_MD == P("home", 0, <<"CLAUDE.md">>)
CLAUDE_RULES == P("home", 0, <<"rules">>)
CLAUDE_AGENTS == P("home", 0, <<"agents">>)
BACKUPS_DIR == P("home", 0, <<"backups">>)
CLAUDE_SETTINGS == P("home", 0, <<"settings.json">>)
CLAUDE_STATUSLINE == P("home", 0, <<"statusline.sh">>)
CLAUDE_TASKS == P("home", 0, <<"tasks">>)

CWD == P("cwd", 0, <<>>)

MANDATORY_RULES == {"security.md"}
MANDATORY_AGENTS == {"security-auditor.md", "compliance-reviewer.md"}

\* path / name
Child(d, name) == [d EXCEPT !.parts = Append(@, name)]

\* path.name: the last component (its ".bak" suffixes are d.baks)
NameOf(p) == p.parts[Len(p.parts)]

\* BACKUPS_DIR / ts
SnapDir(ts) == P("home", ts, <<>>)

\* path.parent / f"{path.name}.bak.{ts}"
BakPath(p, ts) == [p EXCEPT !.baks = Append(@, ts)]

\* path.parent
Parent(p) ==
    IF Len(p.parts) > 0
    THEN [p EXCEPT !.parts = SubSeq(@, 1, Len(@) - 1), !.baks = <<>>]
    ELSE IF p.snap # 0 THEN BACKUPS_DIR
    ELSE NoPath

RECURSIVE Ancestors(_)
Ancestors(p) ==
    IF Parent(p) = NoPath THEN {} ELSE {Parent(p)} \cup Ancestors(Parent(p))

\* f.relative_to(CLAUDE_HOME) joined to snap_dir: the same parts and suffixes
\* under backups/<ts>/
InSnap(ts, p) == [p EXCEPT !.snap = ts]

\* item.relative_to(snap_dir) joined to CLAUDE_HOME
OutOfSnap(p) == [p EXCEPT !.snap = 0]

-----------------------------------------------------------------------------
(* File contents.  A directory is [t |-> "dir"]; a regular file holds raw   *)
(* bytes [t |-> "raw", s |-> ...], a JSON text or a task text (below).  A   *)
(* symbolic link to a regular file outside the three trees is              *)
(* [t |-> "link", to |-> c], c the content of the file it points to.        *)

DirMark == [t |-> "dir"]
Raw(s) == [t |-> "raw", s |-> s]
Bin(s) == [t |-> "bin", s |-> s]
Link(c) == [t |-> "link", to |-> c]
Absent == [t |-> "absent"]

\* p.exists(), p.is_dir(), p.is_file() (all three follow links), p.is_symlink()
Exists(f, p) == p \in DOMAIN f
IsDir(f, p) == Exists(f, p) /\ f[p].t = "dir"
IsFile(f, p) == Exists(f, p) /\ f[p].t # "dir"
IsSymlink(f, p) == Exists(f, p) /\ f[p].t = "link"

\* what reading a file gives: a link is followed
Data(c) == IF c.t = "link" THEN c.to ELSE c

\* p.read_bytes(), or Absent
Bytes(f, p) == IF Exists(f, p) THEN Data(f[p]) ELSE Absent

\* open(p, "wb").write(c): a link is followed, so it stays and the file it
\* points to gets c
Written(f, p, c) == IF IsSymlink(f, p) THEN Link(c) ELSE c

Put(f, p, c) == IF p \in DOMAIN f THEN [f EXCEPT ![p] = c] ELSE (p :> c) @@ f
Del(f, D) == [q \in (DOMAIN f) \ D |-> f[q]]

\* the files and directories anywhere below directory d
Below(f, d) == {q \in DOMAIN f : d \in Ancestors(q)}

\* d.iterdir()
IterDir(f, d) == {q \in DOMAIN f : Parent(q) = d}

-----------------------------------------------------------------------------
(* The engine's operations thread a record m = [fs, log, ev, exc]: the      *)
(* filesystem, the log list, the trace of mutations and log appends in the  *)
(* order the code performs them, and whether an exception was raised.  An   *)
(* exception ends the run: no statement after it is executed.               *)

Machine(f) == [fs |-> f, log |-> <<>>, ev |-> <<>>, exc |-> FALSE]

\* one step of the trace: what was done to path p, what p read as before
\* (old) and what it reads as after (new)
Event(a, p, old, new) == [a |-> a, p |-> p, old |-> old, new |-> new]

\* log.append((status, label)); bak is the backup the label names, or NoPath
LogAppend(m, status, label, bak) ==
    [m EXCEPT !.log = Append(@, [status |-> status, label |-> label, bak |-> bak]),
              !.ev = Append(@, Event("log", label, Absent, Absent))]

\* d.mkdir(parents=True, exist_ok=True)
MkdirP(m, d) ==
    IF Exists(m.fs, d) THEN m
    ELSE [m EXCEPT !.fs = [q \in ({d} \cup Ancestors(d)) \ DOMAIN m.fs |-> DirMark] @@ m.fs,
                   !.ev = Append(@, Event("mkdir", d, Absent, DirMark))]

\* p.write_text(c), and the write half of shutil.copy2
WriteText(m, p, c) ==
    [m EXCEPT !.fs = Put(@, p, Written(m.fs, p, c)),
              !.ev = Append(@, Event("write", p, Bytes(m.fs, p), c))]

\* shutil.copy2(from, to)
Copy2(m, from, to) == WriteText(m, to, Data(m.fs[from]))

\* p.unlink()
Unlink(m, p) ==
    [m EXCEPT !.fs = Del(@, {p}),
              !.ev = Append(@, Event("unlink", p, Bytes(m.fs, p), Absent))]

\* shutil.rmtree(d)
RmTree(m, d) ==
    [m EXCEPT !.fs = Del(@, {d} \cup Below(m.fs, d)),
              !.ev = Append(@, Event("rmtree", d, DirMark, Absent))]

\* a backup_file that copies nothing
BackupNothing(m, path, ts) == m

\* backup_file(path): copies path to <name>.bak.<ts> beside it; the backup's
\* path is BakPath(path, ts)
backup_file(m, path, ts) == Copy2(m, path, BakPath(path, ts))

\* an append that does not look for the item in the list
AppendAll(base, items) == base \o items

\* a merge in which the base's value wins
MergeKeepsBase(base, overlay) == [key \in (DOMAIN base) \cup (DOMAIN overlay) |-> IF key \in DOMAIN base THEN base[key] ELSE overlay[key]]

\* a merge of the top level only
MergeShallow(base, overlay) == [key \in (DOMAIN base) \cup (DOMAIN overlay) |-> IF key \in DOMAIN overlay THEN overlay[key] ELSE base[key]]

\* permissions left as the first merge made them
MergePermsKept(template, merged) == merged

\* a smart_install that does not compare the bytes
SmartInstallNoCompare(m, src, dest, ts) ==
    IF ~Exists(m.fs, dest)
    THEN LogAppend(Copy2(m, src, dest), "installed", dest, NoPath)
    ELSE LogAppend(Copy2(backup_file(m, dest, ts), src, dest),
                   "updated", dest, BakPath(dest, ts))

\* a smart_install that backs up but leaves the destination as it is
SmartInstallKeepsDest(m, src, dest, ts) ==
    IF ~Exists(m.fs, dest)
    THEN LogAppend(Copy2(m, src, dest), "installed", dest, NoPath)
    ELSE IF Bytes(m.fs, src) # Bytes(m.fs, dest)
    THEN LogAppend(backup_file(m, dest, ts), "updated", dest, BakPath(dest, ts))
    ELSE LogAppend(m, "current", dest, NoPath)

\* smart_install lines 347-356, dest.parent made
SmartInstallInto(m, src, dest, ts) ==
    IF ~Exists(m.fs, dest)
    THEN LogAppend(Copy2(m, src, dest), "installed", dest, NoPath)
    ELSE IF Bytes(m.fs, src) # Bytes(m.fs, dest)
    THEN LogAppend(Copy2(backup_file(m, dest, ts), src, dest),
                   "updated", dest, BakPath(dest, ts))
    ELSE LogAppend(m, "current", dest, NoPath)

\* a smart_install that appends its entry before it copies
SmartInstallLogsFirst(m, src, dest, ts) == IF ~Exists(m.fs, dest) THEN Copy2(LogAppend(MkdirP(m, Parent(dest)), "installed", dest, NoPath), src, dest) ELSE IF Bytes(m.fs, src) # Bytes(m.fs, dest) THEN Copy2(backup_file(LogAppend(m, "updated", dest, BakPath(dest, ts)), dest, ts), src, dest) ELSE LogAppend(m, "current", dest, NoPath)

\* smart_install(src, dest, label, log)
smart_install(m, src, dest, ts) ==
    SmartInstallInto(MkdirP(m, Parent(dest)), src, dest, ts)

\* a remove_with_log that logs whether or not the destination exists
RemoveAlwaysLogs(m, dest, ts) ==
    IF Exists(m.fs, dest)
    THEN LogAppend(Unlink(backup_file(m, dest, ts), dest),
                   "removed", dest, BakPath(dest, ts))
    ELSE LogAppend(m, "removed", dest, NoPath)

\* remove_with_log(dest, label, log)
remove_with_log(m, dest, ts) ==
    IF Exists(m.fs, dest)
    THEN LogAppend(Unlink(backup_file(m, dest, ts), dest),
                   "removed", dest, BakPath(dest, ts))
    ELSE m

\* a file_status that does not read the files
FileStatusByExistence(f, src, dest) == IF ~Exists(f, dest) THEN "new" ELSE "installed"

\* file_status(src, dest)
file_status(f, src, dest) ==
    IF ~Exists(f, dest) THEN "new"
    ELSE IF Bytes(f, src) = Bytes(f, dest) THEN "installed" ELSE "update"

\* a set as a list, in some order (iterdir() and rglob() promise none)
RECURSIVE SetToSeq(_)
SetToSeq(S) ==
    IF S = {} THEN <<>>
    ELSE LET x == CHOOSE y \in S : TRUE IN <<x>> \o SetToSeq(S \ {x})

\* the list as the docstring has it: CLAUDE.md, rules/, agents/, tasks/
FilesOfDocstring(f) ==
    LET sub(d) == SetToSeq({q \in IterDir(f, Child(CLAUDE_HOME, d)) :
                               IsFile(f, q) /\ ~IsSymlink(f, q)})
    IN  SelectSeq(<<CLAUDE_MD>>, LAMBDA q : Exists(f, q))
            \o sub("rules") \o sub("agents") \o sub("tasks")

\* create_snapshot lines 195-210: the list files_to_snap
files_to_snap(f) ==
    LET top == <<CLAUDE_MD, CLAUDE_SETTINGS, CLAUDE_STATUSLINE>>
        sub(d) == SetToSeq({q \in IterDir(f, Child(CLAUDE_HOME, d)) :
                               IsFile(f, q) /\ ~IsSymlink(f, q)})
    IN  SelectSeq(top, LAMBDA q : Exists(f, q))
            \o sub("rules") \o sub("agents") \o sub("tasks")

\* create_snapshot lines 219-223
RECURSIVE SnapCopy(_, _, _)
SnapCopy(m, files, ts) ==
    IF files = <<>> \/ m.exc THEN m
    ELSE SnapCopy(Copy2(MkdirP(m, Parent(InSnap(ts, Head(files)))),
                        Head(files), InSnap(ts, Head(files))),
                  Tail(files), ts)

\* a create_snapshot that makes the snapshot directory before it looks at
\* the list
SnapshotMakesDir(m, files, ts) ==
    IF files = <<>>
    THEN [m |-> MkdirP(m, SnapDir(ts)), snap |-> NoPath]
    ELSE [m |-> SnapCopy(MkdirP(m, SnapDir(ts)), files, ts), snap |-> SnapDir(ts)]

\* create_snapshot lines 212-225, files the list collected
SnapshotOf(m, files, ts) ==
    IF files = <<>>
    THEN [m |-> m, snap |-> NoPath]
    ELSE [m |-> SnapCopy(MkdirP(m, SnapDir(ts)), files, ts), snap |-> SnapDir(ts)]

\* create_snapshot(): [m, snap], snap the directory returned, or NoPath for None
create_snapshot(m, ts) ==
    IF ~Exists(m.fs, CLAUDE_HOME)
    THEN [m |-> m, snap |-> NoPath]
    ELSE SnapshotOf(m, files_to_snap(m.fs), ts)

\* discover_snapshots(): the ids, newest first
RECURSIVE Descending(_)
Descending(S) ==
    IF S = {} THEN <<>>
    ELSE LET x == CHOOSE y \in S : \A z \in S : z <= y IN <<x>> \o Descending(S \ {x})

\* re.match(r'^\d{8}-\d{6}$', d.name): the name is a timestamp
TimestampName(d) == d.snap # 0 /\ d.parts = <<>> /\ d.baks = <<>>

RECURSIVE Ascending(_)
Ascending(S) ==
    IF S = {} THEN <<>>
    ELSE LET x == CHOOSE y \in S : \A z \in S : y <= z IN <<x>> \o Ascending(S \ {x})

\* a discover_snapshots that sorts oldest first
DiscoverOldestFirst(f) ==
    IF ~Exists(f, BACKUPS_DIR) THEN <<>>
    ELSE Ascending({q.snap : q \in {d \in IterDir(f, BACKUPS_DIR) :
                                        IsDir(f, d) /\ TimestampName(d)}})

discover_snapshots(f) ==
    IF ~Exists(f, BACKUPS_DIR) THEN <<>>
    ELSE Descending({q.snap : q \in {d \in IterDir(f, BACKUPS_DIR) :
                                         IsDir(f, d) /\ TimestampName(d)}})

\* a containment check on the path as written, links not resolved
StaysByName(f, dest) == dest.root = "home" /\ CLAUDE_HOME \in Ancestors(dest)

\* restore_snapshot: dest.resolve().relative_to(resolved_home) does not raise.
\* No directory of the target tree is a symbolic link and every link of the
\* model points outside the target tree.
StaysUnderHome(f, dest) ==
    dest.root = "home" /\ CLAUDE_HOME \in Ancestors(dest) /\ ~IsSymlink(f, dest)

Reverse(l) == [i \in 1..Len(l) |-> l[Len(l) + 1 - i]]

\* restore_snapshot lines 256-263, for one item
RestoreItem(m, item, dest, ts) ==
    IF Exists(m.fs, dest) /\ Bytes(m.fs, dest) = Bytes(m.fs, item)
    THEN LogAppend(m, "current", dest, NoPath)
    ELSE IF Exists(m.fs, dest)
    THEN LogAppend(Copy2(backup_file(m, dest, ts), item, dest), "restored", dest, NoPath)
    ELSE LogAppend(Copy2(m, item, dest), "restored", dest, NoPath)

\* restore_snapshot lines 246-263: the loop
RECURSIVE RestoreItems(_, _, _)
RestoreItems(m, items, ts) ==
    IF items = <<>> \/ m.exc THEN m
    ELSE RestoreItems(
             IF ~StaysUnderHome(m.fs, OutOfSnap(Head(items))) THEN m
             ELSE RestoreItem(MkdirP(m, Parent(OutOfSnap(Head(items)))),
                              Head(items), OutOfSnap(Head(items)), ts),
             Tail(items), ts)

\* the files of a snapshot as rglob("*") yields them: in one of two opposite
\* orders
SnapItems(f, snap_dir, order) ==
    LET items == SetToSeq({q \in Below(f, snap_dir) : IsFile(f, q) /\ ~IsSymlink(f, q)})
    IN  IF order = "rev" THEN Reverse(items) ELSE items

\* restore_snapshot(snap_dir)
restore_snapshot(m, snap_dir, order, ts) ==
    RestoreItems(m, SnapItems(m.fs, snap_dir, order), ts)

-----------------------------------------------------------------------------
(* Settings documents.  A JSON value is a scalar S(x), a list L(<<..>>) of  *)
(* scalars' texts, or a mapping D(f), f a function from keys to values.  A  *)
(* file holding JSON text is [t |-> "json", v |-> value]: json.loads of its *)
(* text gives v, and json.dumps(v, indent=2) + "\n" is such a text.  A file *)
(* of raw bytes does not parse (json.JSONDecodeError).                      *)

S(x) == [k |-> "s", s |-> x]
L(l) == [k |-> "l", l |-> l]
D(d) == [k |-> "d", d |-> d]
Json(v) == [t |-> "json", v |-> v]

EmptyDoc == D(<<>>)

MODEL_CHOICES ==
    [tok \in {"sonnet", "opus", "haiku", "none"} |->
        CASE tok = "sonnet" -> "us.anthropic.claude-sonnet-4-6"
          [] tok = "opus" -> "us.anthropic.claude-opus-4-6-v1"
          [] tok = "haiku" -> "us.anthropic.claude-haiku-4-5-20251001-v1:0"
          [] tok = "none" -> "None"]

AUTO_READ_ALLOW ==
    <<"Read", "Glob", "Grep", "Bash(ls:*)", "Bash(git diff:*)", "Bash(git log:*)",
      "Bash(git status:*)">>

AUTO_READ_PERMISSIONS == D("permissions" :> D("allow" :> L(AUTO_READ_ALLOW)))

InSeq(x, l) == \E i \in 1..Len(l) : l[i] = x

\* for item in items: if item not in base: base.append(item)
RECURSIVE AppendNew(_, _)
AppendNew(base, items) ==
    IF items = <<>> THEN base
    ELSE AppendNew(IF InSeq(Head(items), base) THEN base ELSE Append(base, Head(items)),
                   Tail(items))

\* deep_merge_settings(base, overlay), on the mappings' functions
RECURSIVE deep_merge_settings(_, _)
deep_merge_settings(base, overlay) ==
    [key \in (DOMAIN base) \cup (DOMAIN overlay) |->
        IF key \notin DOMAIN overlay THEN base[key]
        ELSE IF key \in DOMAIN base /\ base[key].k = "d" /\ overlay[key].k = "d"
        THEN D(deep_merge_settings(base[key].d, overlay[key].d))
        ELSE IF key \in DOMAIN base /\ base[key].k = "l" /\ overlay[key].k = "l"
        THEN L(AppendNew(base[key].l, overlay[key].l))
        ELSE overlay[key]]

\* the mapping passed as base, once deep_merge_settings has returned:
\* merged = dict(base) copies the top level only, so merged[key].append(item)
\* appends to the list base holds, and the recursive call does the same to
\* the mapping base holds under key
RECURSIVE BaseAfterMerge(_, _)
BaseAfterMerge(base, overlay) ==
    [key \in DOMAIN base |->
        IF key \notin DOMAIN overlay THEN base[key]
        ELSE IF base[key].k = "d" /\ overlay[key].k = "d"
        THEN D(BaseAfterMerge(base[key].d, overlay[key].d))
        ELSE IF base[key].k = "l" /\ overlay[key].k = "l"
        THEN L(AppendNew(base[key].l, overlay[key].l))
        ELSE base[key]]

\* d.get(key, default), d[key] = value
Get(d, key, default) == IF key \in DOMAIN d THEN d[key] ELSE default
SetKey(d, key, value) == [x \in (DOMAIN d) \cup {key} |-> IF x = key THEN value ELSE d[x]]

ModelSelected(default_model) ==
    default_model # "none" /\ MODEL_CHOICES[default_model] # "None"

PermListKeys == {"allow", "deny", "ask"}
PermScalarKeys == {"defaultMode", "disableBypassPermissionsMode"}

\* `item in v`: an element of a list, a key of a mapping, a substring of a
\* string (no string of this model is a part of another one)
Contains(v, item) ==
    CASE v.k = "l" -> InSeq(item, v.l)
      [] v.k = "d" -> item \in DOMAIN v.d
      [] v.k = "s" -> item = v.s

\* dict(v) as deep_merge_settings (line 402) applies it to its base: a mapping
\* is copied and an empty list gives the empty mapping; a string or a list of
\* the strings of this model raises ValueError
DictRaises(v) == v.k # "d" /\ v # L(<<>>)
DictOf(v) == IF v.k = "d" THEN v.d ELSE <<>>

\* install_global_settings lines 453-470 raise (a value of the wrong kind
\* where a mapping or a list is needed).  The template's env and permissions
\* are mappings and its allow, deny and ask lists.
MergeEnvRaises(template, merged) ==
    "env" \in DOMAIN template /\ DictRaises(Get(merged, "env", EmptyDoc))

MergePermsRaises(template, merged) ==
    /\ "permissions" \in DOMAIN template
    /\ (PermListKeys \cup PermScalarKeys) \cap DOMAIN template["permissions"].d # {}
    /\ \/ Get(merged, "permissions", EmptyDoc).k # "d"
       \/ \E pk \in PermListKeys \cap DOMAIN template["permissions"].d :
             /\ Get(Get(merged, "permissions", EmptyDoc).d, pk, L(<<>>)).k # "l"
             /\ \E i \in 1..Len(template["permissions"].d[pk].l) :
                   ~Contains(Get(Get(merged, "permissions", EmptyDoc).d, pk, L(<<>>)),
                             template["permissions"].d[pk].l[i])

\* install_global_settings lines 456-459: the template's env wins
MergeEnv(template, merged) ==
    IF "env" \in DOMAIN template
    THEN SetKey(merged, "env",
                D(deep_merge_settings(DictOf(Get(merged, "env", EmptyDoc)),
                                      template["env"].d)))
    ELSE merged

\* install_global_settings lines 461-470: the template's permission lists
\* are appended to the merged ones and its scalars replace them; a value that
\* is no list and holds every item of the template's list stays as it is
ForcePerms(perms, tperms) ==
    [key \in (DOMAIN perms) \cup ((PermListKeys \cup PermScalarKeys) \cap DOMAIN tperms) |->
        IF key \in PermListKeys \cap DOMAIN tperms
        THEN IF Get(perms, key, L(<<>>)).k = "l"
             THEN L(AppendNew(Get(perms, key, L(<<>>)).l, tperms[key].l))
             ELSE perms[key]
        ELSE IF key \in PermScalarKeys \cap DOMAIN tperms THEN tperms[key]
        ELSE perms[key]]

\* install_global_settings lines 460-470
MergePerms(template, merged) ==
    IF /\ "permissions" \in DOMAIN template
       /\ (PermListKeys \cup PermScalarKeys) \cap DOMAIN template["permissions"].d # {}
    THEN SetKey(merged, "permissions",
                D(ForcePerms(Get(merged, "permissions", EmptyDoc).d,
                             template["permissions"].d)))
    ELSE merged

\* the selected model not put into the merged document
InjectNothing(merged, default_model) == merged

\* install_global_settings lines 472-474
InjectModel(merged, default_model) ==
    IF ModelSelected(default_model)
    THEN SetKey(merged, "model", S(MODEL_CHOICES[default_model]))
    ELSE merged

\* the template merged over the existing document
MergedTemplateOver(template, existing, default_model) == InjectModel(MergePerms(template, MergeEnv(template, deep_merge_settings(existing, template))), default_model)

\* the merged document of install_global_settings (lines 452-474), from the
\* template (model already injected) and the existing document
MergedSettings(template, existing, default_model) ==
    InjectModel(
        MergePerms(template, MergeEnv(template, deep_merge_settings(template, existing))),
        default_model)

\* path.read_text(encoding="utf-8") decodes: the bytes Bin(s) are no UTF-8
\* text, and reading them raises UnicodeDecodeError, a ValueError
Decodes(f, path) == Data(f[path]).t # "bin"

\* json.loads(path.read_text()) parses
Parses(f, path) == Exists(f, path) /\ Data(f[path]).t = "json"

\* install_global_settings lines 433-440: the template, the model injected
TemplateOf(f, default_model) ==
    IF ModelSelected(default_model)
    THEN SetKey(Data(f[HOME_SETTINGS_JSON]).v.d, "model", S(MODEL_CHOICES[default_model]))
    ELSE Data(f[HOME_SETTINGS_JSON]).v.d

\* install_global_settings lines 443-450: [m, existing]
LoadExisting(m, ts) ==
    IF ~Exists(m.fs, CLAUDE_SETTINGS) THEN [m |-> m, existing |-> EmptyDoc]
    ELSE IF Parses(m.fs, CLAUDE_SETTINGS)
    THEN [m |-> m, existing |-> Data(m.fs[CLAUDE_SETTINGS]).v]
    ELSE [m |-> LogAppend(backup_file(m, CLAUDE_SETTINGS, ts),
                          "warning", CLAUDE_SETTINGS, BakPath(CLAUDE_SETTINGS, ts)),
          existing |-> EmptyDoc]

\* the settings written without a comparison with the existing document
WriteSettingsAlways(m, existing, merged, ts) == IF Exists(m.fs, CLAUDE_SETTINGS) /\ existing # EmptyDoc THEN LogAppend(WriteText(backup_file(m, CLAUDE_SETTINGS, ts), CLAUDE_SETTINGS, Json(D(merged))), "updated", CLAUDE_SETTINGS, BakPath(CLAUDE_SETTINGS, ts)) ELSE LogAppend(WriteText(m, CLAUDE_SETTINGS, Json(D(merged))), "installed", CLAUDE_SETTINGS, NoPath)

\* install_global_settings lines 477-490
WriteSettings(m, existing, merged, ts) ==
    IF existing = D(merged)
    THEN LogAppend(m, "current", CLAUDE_SETTINGS, NoPath)
    ELSE IF Exists(m.fs, CLAUDE_SETTINGS) /\ existing # EmptyDoc
    THEN LogAppend(WriteText(backup_file(m, CLAUDE_SETTINGS, ts),
                             CLAUDE_SETTINGS, Json(D(merged))),
                   "updated", CLAUDE_SETTINGS, BakPath(CLAUDE_SETTINGS, ts))
    ELSE LogAppend(WriteText(m, CLAUDE_SETTINGS, Json(D(merged))),
                   "installed", CLAUDE_SETTINGS, NoPath)

\* check_aws_profile(name): ~/.aws/config exists in this model exactly when it
\* holds the template's profile
AWS_CONFIG == P("aws", 0, <<"config">>)
check_aws_profile(f) == Exists(f, AWS_CONFIG)

\* install_global_settings lines 492-497
AwsWarning(m) ==
    IF check_aws_profile(m.fs) THEN m
    ELSE LogAppend(m, "warning", AWS_CONFIG, NoPath)

\* install_global_settings lines 499-504
InstallStatusline(m, ts) ==
    IF Exists(m.fs, HOME_STATUSLINE)
    THEN smart_install(m, HOME_STATUSLINE, CLAUDE_STATUSLINE, ts)
    ELSE m

\* install_global_settings lines 492-504
SettingsTail(m, ts) == IF m.exc THEN m ELSE InstallStatusline(AwsWarning(m), ts)

\* install_global_settings lines 452-504
MergeAndWrite(m, template, existing, default_model, ts) ==
    IF \/ existing.k # "d"
       \/ MergeEnvRaises(template, deep_merge_settings(template, existing.d))
       \/ MergePermsRaises(template, deep_merge_settings(template, existing.d))
    THEN [m EXCEPT !.exc = TRUE]
    ELSE SettingsTail(
             WriteSettings(m, existing,
                           MergedSettings(template, existing.d, default_model), ts),
             ts)

\* install_global_settings lines 438-504, the template read;
\* loaded = [m, existing]
WithTemplate(template, loaded, default_model, ts) ==
    MergeAndWrite(loaded.m, template, loaded.existing, default_model, ts)

\* install_global_settings lines 431-504, CLAUDE_HOME made
FromTemplate(m, default_model, ts) ==
    IF Exists(m.fs, HOME_SETTINGS_JSON) /\ ~Decodes(m.fs, HOME_SETTINGS_JSON)
    THEN [m EXCEPT !.exc = TRUE]
    ELSE IF ~Parses(m.fs, HOME_SETTINGS_JSON)
    THEN LogAppend(m, "warning", CLAUDE_SETTINGS, NoPath)
    ELSE WithTemplate(TemplateOf(m.fs, default_model), LoadExisting(m, ts),
                      default_model, ts)

\* install_global_settings(default_model, log)
install_global_settings(m, default_model, ts) ==
    FromTemplate(MkdirP(m, CLAUDE_HOME), default_model, ts)

-----------------------------------------------------------------------------
(* Task files.  A text file is [t |-> "text", lines |-> <<..>>], each line  *)
(* one of: "#" (a heading), "" (blank), "c" (a one-line HTML comment),      *)
(* "<!--" and "-->" (a comment's first and last line), "x" (anything else). *)

Text(lines) == [t |-> "text", lines |-> lines]

\* re.sub(r"<!--.*?-->", "", text, flags=re.DOTALL), line by line
RECURSIVE StripComments(_)
StripComments(lines) ==
    IF lines = <<>> THEN <<>>
    ELSE IF Head(lines) = "c" THEN StripComments(Tail(lines))
    ELSE IF Head(lines) = "<!--" /\ \E j \in 2..Len(lines) : lines[j] = "-->"
    THEN LET j == CHOOSE i \in 2..Len(lines) :
                      lines[i] = "-->" /\ \A h \in 2..(i - 1) : lines[h] # "-->"
         IN  StripComments(SubSeq(lines, j + 1, Len(lines)))
    ELSE <<Head(lines)>> \o StripComments(Tail(lines))

\* file_has_content(path)
file_has_content(f, path) ==
    IF ~Exists(f, path) THEN FALSE
    ELSE LET kept == StripComments(Data(f[path]).lines)
         IN  \E i \in 1..Len(kept) : kept[i] # "" /\ kept[i] # "#"

TaskTemplates == <<"lessons.md", "todo.md">>

\* a task template copied whatever the destination holds
InstallTaskAlways(m, src, dest) == IF ~Exists(m.fs, src) THEN [m EXCEPT !.exc = TRUE] ELSE LogAppend(Copy2(m, src, dest), "installed", dest, NoPath)

\* a task template moved, not copied
InstallTaskMoves(m, src, dest) == IF Exists(m.fs, dest) /\ file_has_content(m.fs, dest) THEN LogAppend(m, "skipped", dest, NoPath) ELSE IF ~Exists(m.fs, src) THEN [m EXCEPT !.exc = TRUE] ELSE LogAppend(Unlink(Copy2(m, src, dest), src), "installed", dest, NoPath)

\* run_install lines 546-552 and 564-570: one task template
InstallTask(m, src, dest) ==
    IF Exists(m.fs, dest) /\ file_has_content(m.fs, dest)
    THEN LogAppend(m, "skipped", dest, NoPath)
    ELSE IF ~Exists(m.fs, src) THEN [m EXCEPT !.exc = TRUE]
    ELSE LogAppend(Copy2(m, src, dest), "installed", dest, NoPath)

\* run_install lines 545-552 and 563-570: the task templates into tasks_dir
RECURSIVE InstallTasks(_, _, _)
InstallTasks(m, tasks_dir, tpls) ==
    IF tpls = <<>> \/ m.exc THEN m
    ELSE InstallTasks(InstallTask(m, Child(TASKS_DIR, Head(tpls)),
                                  Child(tasks_dir, Head(tpls))),
                      tasks_dir, Tail(tpls))

\* an install_auto_read that writes the read permissions over the document
AutoReadReplaces(m, settings_file) == IF Parses(m.fs, settings_file) /\ Data(m.fs[settings_file]).v = AUTO_READ_PERMISSIONS THEN LogAppend(m, "current", settings_file, NoPath) ELSE LogAppend(WriteText(m, settings_file, Json(AUTO_READ_PERMISSIONS)), "installed", settings_file, NoPath)

\* install_auto_read lines 373-397, settings_dir made
AutoReadInto(m, settings_file) ==
    LET existing == IF Parses(m.fs, settings_file) THEN Data(m.fs[settings_file]).v
                    ELSE EmptyDoc
        perms == Get(existing.d, "permissions", EmptyDoc)
        allow == Get(perms.d, "allow", L(<<>>))
        raises == \/ existing.k # "d"
                  \/ perms.k # "d"
                  \/ /\ allow.k # "l"
                     /\ \E i \in 1..Len(AUTO_READ_ALLOW) : ~Contains(allow, AUTO_READ_ALLOW[i])
        merged == IF allow.k = "l" THEN AppendNew(allow.l, AUTO_READ_ALLOW) ELSE <<>>
        doc == D(SetKey(existing.d, "permissions", D(SetKey(perms.d, "allow", L(merged)))))
    IN  IF ~Exists(m.fs, settings_file)
        THEN LogAppend(WriteText(m, settings_file, Json(AUTO_READ_PERMISSIONS)),
                       "installed", settings_file, NoPath)
        ELSE IF raises THEN [m EXCEPT !.exc = TRUE]
        ELSE IF allow.k = "l" /\ merged # allow.l
        THEN LogAppend(WriteText(m, settings_file, Json(doc)),
                       "installed", settings_file, NoPath)
        ELSE LogAppend(m, "current", settings_file, NoPath)

\* install_auto_read(cwd, log)
install_auto_read(m, cwd) ==
    AutoReadInto(MkdirP(m, Child(cwd, ".claude")),
                 Child(Child(cwd, ".claude"), "settings.json"))

\* is_git_repo(cwd): the working directory's ancestors hold no .git here
is_git_repo(f, cwd) == Exists(f, Child(cwd, ".git"))

\* The file names of the model in ascending order, and those ending in ".md"
NameOrder ==
    <<"CLAUDE.md", "compliance-reviewer.md", "custom.md", "lessons.md", "linked.md",
      "notes.txt", "security-auditor.md", "security.md", "style.md", "todo.md", "x.md">>

HasMdSuffix(name) == name # "notes.txt"

\* a discover_files that takes symbolic links too
DiscoverWithLinks(f, directory) == IF ~Exists(f, directory) THEN <<>> ELSE SelectSeq(NameOrder, LAMBDA n : HasMdSuffix(n) /\ IsFile(f, Child(directory, n)))

\* discover_files(directory): the names, sorted
discover_files(f, directory) ==
    IF ~Exists(f, directory) THEN <<>>
    ELSE SelectSeq(NameOrder,
                   LAMBDA n : /\ HasMdSuffix(n)
                              /\ IsFile(f, Child(directory, n))
                              /\ ~IsSymlink(f, Child(directory, n)))

\* run_install lines 523-529 and 533-539: install selected, remove deselected
RECURSIVE InstallOrRemove(_, _, _, _, _, _)
InstallOrRemove(m, names, src_dir, dest_dir, selected, ts) ==
    IF names = <<>> \/ m.exc THEN m
    ELSE InstallOrRemove(
             IF Head(names) \in selected
             THEN smart_install(m, Child(src_dir, Head(names)),
                                Child(dest_dir, Head(names)), ts)
             ELSE remove_with_log(m, Child(dest_dir, Head(names)), ts),
             Tail(names), src_dir, dest_dir, selected, ts)

\* run_install lines 541-552 (run_cli lines 1426-1437)
GlobalTasks(m, create_global_tasks) ==
    IF create_global_tasks
    THEN InstallTasks(MkdirP(m, CLAUDE_TASKS), CLAUDE_TASKS, TaskTemplates)
    ELSE m

\* run_install lines 554-555 (run_cli lines 1439-1440); an exception raised
\* earlier has ended the run
GlobalSettings(m, selected_model, ts) ==
    IF m.exc THEN m ELSE install_global_settings(m, selected_model, ts)

\* run_install lines 519-539 (run_cli lines 1410-1424): CLAUDE.md, rules, agents
GlobalFiles(m, rule_names, agent_names, selected_rules, selected_agents, ts) ==
    InstallOrRemove(
        MkdirP(InstallOrRemove(
                   MkdirP(smart_install(m, HOME_CLAUDE_MD, CLAUDE_MD, ts), CLAUDE_RULES),
                   rule_names, HOME_RULES_DIR, CLAUDE_RULES, selected_rules, ts),
               CLAUDE_AGENTS),
        agent_names, AGENTS_DIR, CLAUDE_AGENTS, selected_agents, ts)

\* run_install lines 517-555 (run_cli lines 1410-1440): the global part
GlobalPart(m, rule_names, agent_names, rules, agents, tasks, model, ts) ==
    GlobalSettings(
        GlobalTasks(GlobalFiles(m, rule_names, agent_names, rules, agents, ts), tasks),
        model, ts)

\* run_install lines 560-570 (run_cli lines 1446-1456)
ProjectTasks(m, cwd, create_project_tasks) ==
    IF create_project_tasks
    THEN InstallTasks(MkdirP(m, Child(cwd, "tasks")), Child(cwd, "tasks"), TaskTemplates)
    ELSE m

\* run_install lines 572-573 (run_cli lines 1458-1459)
ProjectAutoRead(m, cwd, auto_read) ==
    IF auto_read /\ ~m.exc THEN install_auto_read(m, cwd) ELSE m

\* run_install lines 560-573 (run_cli lines 1446-1459): inside a repository
ProjectFiles(m, cwd, create_project_tasks, auto_read) ==
    ProjectAutoRead(ProjectTasks(m, cwd, create_project_tasks), cwd, auto_read)

\* a project part that does not look for a repository
ProjectPartAnywhere(m, cwd, create_project_tasks, auto_read) == ProjectFiles(m, cwd, create_project_tasks, auto_read)

\* run_install lines 557-575: the project part
ProjectPart(m, cwd, create_project_tasks, auto_read) ==
    IF is_git_repo(m.fs, cwd)
    THEN ProjectFiles(m, cwd, create_project_tasks, auto_read)
    ELSE LogAppend(m, "skipped", cwd, NoPath)

\* create_snapshot() has returned s = [m, snap] (snap NoPath for None)
SnapshotDone(s) ==
    [s.m EXCEPT !.ev = Append(@, Event("snapshot", s.snap, Absent, Absent))]

\* run_install lines 512-515
SnapshotLogged(s) ==
    IF s.snap # NoPath
    THEN LogAppend(SnapshotDone(s), "snapshot", s.snap, NoPath)
    ELSE SnapshotDone(s)

\* run_install lines 517-555
GlobalScope(m, app, rule_names, agent_names, ts) ==
    IF app.scope \in {"global", "both"}
    THEN GlobalPart(m, rule_names, agent_names, app.selected_rules, app.selected_agents,
                    app.create_global_tasks, app.selected_model, ts)
    ELSE m

\* run_install lines 557-575
ProjectScope(m, app) ==
    IF app.scope \in {"project", "both"} /\ ~m.exc
    THEN ProjectPart(m, CWD, app.create_project_tasks, app.auto_read)
    ELSE m

\* run_install lines 517-577, m1 the state once the snapshot is taken
InstallScopes(m1, app, rule_names, agent_names, ts) ==
    IF m1.exc THEN m1
    ELSE ProjectScope(GlobalScope(m1, app, rule_names, agent_names, ts), app)

\* run_install(app); rule_info and agent_info were built by InstallerApp.__init__
run_install(m, app, ts) ==
    InstallScopes(IF app.scope \in {"global", "both"}
                  THEN SnapshotLogged(create_snapshot(m, ts))
                  ELSE m,
                  app, discover_files(m.fs, HOME_RULES_DIR),
                  discover_files(m.fs, AGENTS_DIR), ts)

\* run_cli's scope: --both, --project, or global
CliScope(args) ==
    IF args.both THEN "both" ELSE IF args.scope_project THEN "project" ELSE "global"

NamesOf(names) == {names[i] : i \in 1..Len(names)}

\* a command line that installs the global task templates whatever --no-tasks
CliGlobalWithTasks(m, args, rules, agents, ts) == IF CliScope(args) \in {"global", "both"} THEN GlobalPart(m, rules, agents, NamesOf(rules), NamesOf(agents), TRUE, args.model, ts) ELSE m

\* run_cli lines 1409-1440
CliGlobal(m, args, rules, agents, ts) ==
    IF CliScope(args) \in {"global", "both"}
    THEN GlobalPart(m, rules, agents, NamesOf(rules), NamesOf(agents),
                    ~args.no_tasks, args.model, ts)
    ELSE m

\* run_cli lines 1443-1461
CliProject(m, args, in_repo) ==
    IF CliScope(args) \in {"project", "both"} /\ ~m.exc
    THEN IF in_repo
         THEN ProjectFiles(m, CWD, ~args.no_tasks, args.auto_read)
         ELSE LogAppend(m, "skipped", CWD, NoPath)
    ELSE m

\* run_cli lines 1409-1461, m1 the state once the snapshot is taken
CliScopes(m1, args, in_repo, rules, agents, ts) ==
    IF m1.exc THEN m1
    ELSE CliProject(CliGlobal(m1, args, rules, agents, ts), args, in_repo)

\* run_cli(args): the snapshot is printed, not logged; every rule and agent
\* of the catalog is installed
run_cli(m, args, ts) ==
    CliScopes(IF CliScope(args) \in {"global", "both"}
              THEN SnapshotDone(create_snapshot(m, ts))
              ELSE m,
              args, is_git_repo(m.fs, CWD), discover_files(m.fs, HOME_RULES_DIR),
              discover_files(m.fs, AGENTS_DIR), ts)

\* run_uninstall lines 1540-1548: the managed directories
RECURSIVE RemoveDirs(_, _)
RemoveDirs(m, dirnames) ==
    IF dirnames = <<>> \/ m.exc THEN m
    ELSE RemoveDirs(IF IsDir(m.fs, Child(CLAUDE_HOME, Head(dirnames)))
                    THEN RmTree(m, Child(CLAUDE_HOME, Head(dirnames)))
                    ELSE m,
                    Tail(dirnames))

\* run_uninstall lines 1535-1548, m1 the state once the snapshot is taken
UninstallFiles(m1) ==
    RemoveDirs(IF Exists(m1.fs, CLAUDE_MD) /\ ~IsSymlink(m1.fs, CLAUDE_MD)
               THEN Unlink(m1, CLAUDE_MD) ELSE m1,
               <<"rules", "agents", "tasks">>)

\* run_uninstall(): what it prints is not modelled
run_uninstall(m, ts) ==
    IF ~Exists(m.fs, CLAUDE_HOME) THEN m
    ELSE UninstallFiles(SnapshotDone(create_snapshot(m, ts)))

\* run_restore_cli lines 1562-1586: the snapshot directory chosen, NoPath when
\* the function returns without restoring.  args.restore is the timestamp
\* given with --restore=, or True (no timestamp given).
RestoreTarget(f, args) ==
    IF discover_snapshots(f) = <<>> THEN NoPath
    ELSE IF args.given
    THEN IF InSeq(args.timestamp, discover_snapshots(f))
         THEN SnapDir(args.timestamp) ELSE NoPath
    ELSE SnapDir(discover_snapshots(f)[1])

\* run_restore_cli(args)
run_restore_cli(m, args, order, ts) ==
    IF RestoreTarget(m.fs, args) = NoPath THEN m
    ELSE restore_snapshot(m, RestoreTarget(m.fs, args), order, ts)

-----------------------------------------------------------------------------
(* Initial filesystems *)

\* a tree from its files: every ancestor directory exists
WithDirs(f) ==
    [q \in (DOMAIN f) \cup UNION {Ancestors(p) : p \in DOMAIN f} |->
        IF q \in DOMAIN f THEN f[q] ELSE DirMark]

Merge(f, g) == [q \in (DOMAIN f) \cup (DOMAIN g) |-> IF q \in DOMAIN f THEN f[q] ELSE g[q]]

TemplateDoc ==
    D("env" :> D("AWS_PROFILE" :> S("default"))
      @@ "permissions" :> D("allow" :> L(<<"Read", "Grep">>) @@ "defaultMode" :> S("default"))
      @@ "model" :> S("y"))

UserDoc ==
    D("model" :> S("x")
      @@ "permissions" :> D("allow" :> L(<<"Read">>))
      @@ "theme" :> S("dark"))

ProjectDoc == D("permissions" :> D("allow" :> L(<<"Read", "Write">>)))

\* SCRIPT_DIR/standards: the source catalog
SourceTree ==
    WithDirs(
        HOME_CLAUDE_MD :> Raw("claude-2")
        @@ Child(HOME_RULES_DIR, "security.md") :> Raw("security-2")
        @@ Child(HOME_RULES_DIR, "style.md") :> Raw("style-2")
        @@ Child(HOME_RULES_DIR, "notes.txt") :> Raw("notes")
        @@ Child(HOME_RULES_DIR, "linked.md") :> Link(Raw("linked"))
        @@ Child(AGENTS_DIR, "security-auditor.md") :> Raw("auditor-2")
        @@ Child(AGENTS_DIR, "compliance-reviewer.md") :> Raw("compliance-2")
        @@ Child(TASKS_DIR, "lessons.md") :> Text(<<"#", "c">>)
        @@ Child(TASKS_DIR, "todo.md") :> Text(<<"#", "">>)
        @@ HOME_SETTINGS_JSON :> Json(TemplateDoc)
        @@ HOME_STATUSLINE :> Raw("statusline-2"))

\* ~/.claude of an earlier install: older versions, user files and edits, a
\* rule kept elsewhere and linked, a directory of the user's own rules, the
\* snapshot backups/1 an install run of second 1 took, and beside it in
\* backups/ a directory not named by a timestamp and a regular file named by
\* one
HomeStale ==
    WithDirs(
        CLAUDE_MD :> Raw("claude-1")
        @@ Child(CLAUDE_RULES, "security.md") :> Raw("security-1")
        @@ Child(CLAUDE_RULES, "style.md") :> Link(Raw("style-1"))
        @@ Child(Child(CLAUDE_RULES, "team"), "x.md") :> Raw("team-x")
        @@ Child(CLAUDE_RULES, "custom.md") :> Raw("custom")
        @@ Child(CLAUDE_AGENTS, "security-auditor.md") :> Raw("auditor-2")
        @@ Child(CLAUDE_AGENTS, "compliance-reviewer.md") :> Raw("compliance-1")
        @@ Child(CLAUDE_TASKS, "lessons.md") :> Text(<<"#", "x">>)
        @@ Child(CLAUDE_TASKS, "todo.md") :> Text(<<"#", "<!--", "x", "-->">>)
        @@ CLAUDE_SETTINGS :> Json(UserDoc)
        @@ CLAUDE_STATUSLINE :> Raw("statusline-1")
        @@ AWS_CONFIG :> Raw("[profile default]")
        @@ InSnap(1, CLAUDE_MD) :> Raw("claude-0")
        @@ InSnap(1, CLAUDE_SETTINGS) :> Json(UserDoc)
        @@ InSnap(1, Child(CLAUDE_RULES, "security.md")) :> Raw("security-0")
        @@ InSnap(1, Child(CLAUDE_RULES, "style.md")) :> Raw("style-0")
        @@ InSnap(1, Child(CLAUDE_AGENTS, "retired.md")) :> Raw("retired")
        @@ Child(Child(BACKUPS_DIR, "old"), "CLAUDE.md") :> Raw("claude-old")
        @@ SnapDir(9) :> Raw("archive"))

\* ~/.claude with a damaged settings document and few files
HomeBroken ==
    WithDirs(
        CLAUDE_MD :> Raw("claude-2")
        @@ Child(CLAUDE_RULES, "security.md") :> Raw("security-2")
        @@ CLAUDE_SETTINGS :> Raw("{broken"))

\* ~/.claude holding nothing the installer installs: a file of the program
\* that uses the tree, and a directory of the user's own rules
HomeBare ==
    WithDirs(
        Child(CLAUDE_HOME, "history.jsonl") :> Raw("history")
        @@ Child(Child(CLAUDE_RULES, "team"), "x.md") :> Raw("team-x"))

HomeTrees == {<<>>, HomeStale, HomeBroken, HomeBare}

\* the working directory: outside any repository, or a repository with files
CwdRepo ==
    WithDirs(
        Child(CWD, ".git") :> DirMark
        @@ Child(Child(CWD, "tasks"), "lessons.md") :> Text(<<"#">>)
        @@ Child(Child(CWD, "tasks"), "todo.md") :> Text(<<"x">>)
        @@ Child(Child(CWD, ".claude"), "settings.json") :> Json(ProjectDoc))

CwdTrees == {WithDirs(CWD :> DirMark), CwdRepo}

-----------------------------------------------------------------------------
(* Inputs *)

AllRules == {"security.md", "style.md"}
AllAgents == {"security-auditor.md", "compliance-reviewer.md"}

App(scope, rules, agents, gtasks, ptasks, auto_read, model) ==
    [scope |-> scope, selected_rules |-> rules, selected_agents |-> agents,
     create_global_tasks |-> gtasks, create_project_tasks |-> ptasks,
     auto_read |-> auto_read, selected_model |-> model]

\* what the wizard hands to run_install when every item and option is chosen,
\* and the states differing from it in one field
DefaultApp == App("both", AllRules, AllAgents, TRUE, TRUE, TRUE, "sonnet")

Apps ==
    {[DefaultApp EXCEPT !.scope = s] : s \in {"global", "project", "both"}}
    \cup {[DefaultApp EXCEPT !.selected_rules = r] : r \in SUBSET AllRules}
    \cup {[DefaultApp EXCEPT !.selected_agents = a] : a \in SUBSET AllAgents}
    \cup {[DefaultApp EXCEPT !.create_global_tasks = b] : b \in BOOLEAN}
    \cup {[DefaultApp EXCEPT !.create_project_tasks = b] : b \in BOOLEAN}
    \cup {[DefaultApp EXCEPT !.auto_read = b] : b \in BOOLEAN}
    \cup {[DefaultApp EXCEPT !.selected_model = t] : t \in {"sonnet", "none"}}

DefaultArgs ==
    [both |-> TRUE, scope_project |-> FALSE, no_tasks |-> FALSE, auto_read |-> TRUE,
     model |-> "sonnet"]

CliArgs ==
    {DefaultArgs,
     [DefaultArgs EXCEPT !.both = FALSE],
     [DefaultArgs EXCEPT !.both = FALSE, !.scope_project = TRUE],
     [DefaultArgs EXCEPT !.no_tasks = TRUE],
     [DefaultArgs EXCEPT !.auto_read = FALSE],
     [DefaultArgs EXCEPT !.model = "none"]}

NoApp == [scope |-> "none"]

\* --restore, --restore=<the snapshot of second 1>, --restore=<second 2>
RestoreArgs ==
    {[scope |-> "none", given |-> FALSE, timestamp |-> 1],
     [scope |-> "none", given |-> TRUE, timestamp |-> 1],
     [scope |-> "none", given |-> TRUE, timestamp |-> 2]}

-----------------------------------------------------------------------------
(* The handlers *)

\* create_snapshot has not been called
NoSnapshot == [snap |-> NoPath, fs |-> <<>>, ts |-> 1, since |-> <<>>]

\* no handler has run
NoOp ==
    [op |-> "init", app |-> NoApp, src |-> NoPath, dest |-> NoPath, snap |-> NoPath,
     exc |-> FALSE, ts |-> 1]

\* no wizard is running
NoUi == [screen |-> "none"]

Init ==
    /\ \E h \in HomeTrees, c \in CwdTrees : fs = Merge(SourceTree, Merge(h, c))
    /\ now = 2
    /\ nops = 0
    /\ last = NoOp
    /\ prev = NoOp
    /\ pre = <<>>
    /\ log = <<>>
    /\ ev = <<>>
    /\ taken = NoSnapshot
    /\ ui = NoUi

\* operation op ran from the current filesystem, to m
Ran(m, op, app, src, dest, snap) ==
    /\ nops' = nops + 1
    /\ fs' = m.fs
    /\ log' = m.log
    /\ ev' = m.ev
    /\ pre' = fs
    /\ last' = [op |-> op, app |-> app, src |-> src, dest |-> dest, snap |-> snap,
                exc |-> m.exc, ts |-> now]
    /\ prev' = last
    /\ taken' = IF op = "create_snapshot"
                THEN [snap |-> snap, fs |-> fs, ts |-> now, since |-> <<>>]
                ELSE [taken EXCEPT !.since = Append(@, op)]
    /\ UNCHANGED <<now, ui>>

\* the clock reaches the next second
Tick ==
    /\ now < MaxClock
    /\ now' = now + 1
    /\ UNCHANGED <<fs, nops, last, prev, pre, log, ev, taken, ui>>

\* ResultScreen.compose: run_install(self.app)
InstallHandler ==
    \E app \in Apps :
        Ran(run_install(Machine(fs), app, now), "run_install", app, NoPath, NoPath, NoPath)

\* main: run_cli(args)
CliHandler ==
    \E args \in CliArgs :
        Ran(run_cli(Machine(fs), args, now), "run_cli", args, NoPath, NoPath, NoPath)

\* main: run_uninstall()
UninstallHandler ==
    Ran(run_uninstall(Machine(fs), now), "run_uninstall", NoApp, NoPath, NoPath, NoPath)

\* RestoreScreen.action_restore and run_restore_cli: restore_snapshot of one
\* of the snapshots discover_snapshots() lists
RestoreHandler ==
    \E i \in 1..Len(discover_snapshots(fs)), order \in {"fwd", "rev"} :
        Ran(restore_snapshot(Machine(fs), SnapDir(discover_snapshots(fs)[i]), order, now),
            "restore_snapshot", [scope |-> "none", order |-> order], NoPath, NoPath,
            SnapDir(discover_snapshots(fs)[i]))

(* Spec: the handlers, one after another *)
RunInstall == nops < MaxOps /\ InstallHandler
RunCli == nops < MaxOps /\ CliHandler
RunUninstall == nops < MaxOps /\ UninstallHandler
RunRestore == nops < MaxOps /\ RestoreHandler

Next == Tick \/ RunInstall \/ RunCli \/ RunUninstall \/ RunRestore

Spec == Init /\ [][Next]_vars

(* SpecRun: one install or uninstall run from each initial tree *)
OneInstall == nops < MaxRuns /\ InstallHandler
OneCli == nops < MaxRuns /\ CliHandler
OneUninstall == nops < MaxRuns /\ UninstallHandler

NextRun == Tick \/ OneInstall \/ OneCli \/ OneUninstall

SpecRun == Init /\ [][NextRun]_vars

(* SpecOps: the engine's operations, called as the handlers call them *)

\* the (src, dest) pairs run_install, run_cli and install_global_settings
\* hand to smart_install
InstallPairs ==
    {<<HOME_CLAUDE_MD, CLAUDE_MD>>, <<HOME_STATUSLINE, CLAUDE_STATUSLINE>>}
    \cup {<<Child(HOME_RULES_DIR, n), Child(CLAUDE_RULES, n)>> : n \in AllRules}
    \cup {<<Child(AGENTS_DIR, n), Child(CLAUDE_AGENTS, n)>> : n \in AllAgents}

CallSmartInstall ==
    /\ nops < MaxCalls
    /\ \E pair \in InstallPairs :
          Ran(smart_install(Machine(fs), pair[1], pair[2], now),
              "smart_install", NoApp, pair[1], pair[2], NoPath)

\* the destinations run_install hands to remove_with_log
CallRemoveWithLog ==
    /\ nops < MaxCalls
    /\ \E dest \in {Child(CLAUDE_RULES, n) : n \in AllRules}
                      \cup {Child(CLAUDE_AGENTS, n) : n \in AllAgents} :
          Ran(remove_with_log(Machine(fs), dest, now),
              "remove_with_log", NoApp, NoPath, dest, NoPath)

SnapshotRan(s) == Ran(s.m, "create_snapshot", NoApp, NoPath, NoPath, s.snap)

CallCreateSnapshot ==
    /\ nops < MaxCalls
    /\ SnapshotRan(create_snapshot(Machine(fs), now))

CallRestoreSnapshot == nops < MaxCalls /\ RestoreHandler

NextOps ==
    Tick \/ CallSmartInstall \/ CallRemoveWithLog \/ CallCreateSnapshot
         \/ CallRestoreSnapshot

SpecOps == Init /\ [][NextOps]_vars

(* SpecQuery: the functions that read the trees, file_status and          *)
(* discover_files, called on the initial trees and around a smart_install *)

\* build_file_info: file_status(src, dest) of a catalog file
CallFileStatus ==
    /\ nops < MaxCalls
    /\ \E pair \in InstallPairs :
          Ran(Machine(fs), "file_status",
              [scope |-> "none", status |-> file_status(fs, pair[1], pair[2])],
              pair[1], pair[2], NoPath)

\* InstallerApp.__init__ and run_cli: discover_files(directory), here also of
\* directories of the target tree and of one that does not exist
CallDiscoverFiles ==
    /\ nops < MaxCalls
    /\ \E directory \in {HOME_RULES_DIR, AGENTS_DIR, TASKS_DIR, CLAUDE_RULES,
                          CLAUDE_AGENTS, CLAUDE_TASKS, Child(CLAUDE_RULES, "team"),
                          Child(CLAUDE_HOME, "commands")} :
          Ran(Machine(fs), "discover_files",
              [scope |-> "none", names |-> discover_files(fs, directory)],
              directory, NoPath, NoPath)

NextQuery == CallFileStatus \/ CallDiscoverFiles \/ CallSmartInstall

SpecQuery == Init /\ [][NextQuery]_vars

(* SpecMerge: deep_merge_settings and install_global_settings applied to *)
(* settings documents drawn from Templates, Existings and MergeDocs       *)

\* templates: the catalog's own, one with a model and an allow list only, and
\* one with a nested env value, a deny list, another mode, a permissions key
\* the code does not name, and keys of its own
Templates ==
    {TemplateDoc,
     D("model" :> S("y") @@ "permissions" :> D("allow" :> L(<<"Read", "Grep">>))),
     D("env" :> D("AWS_PROFILE" :> S("default") @@ "proxy" :> D("host" :> S("h")))
       @@ "permissions" :> D("allow" :> L(<<"Read", "Grep">>) @@ "deny" :> L(<<"Write">>)
                             @@ "defaultMode" :> S("plan") @@ "foo" :> S("a"))
       @@ "theme" :> S("light")
       @@ "hooks" :> D("pre" :> S("t")))}

\* existing documents: the user's, one with a model and an allow list only,
\* one equal to a template,
\* one that differs from the templates in every place, the empty one,
\* documents holding a value of another kind under env, permissions or a
\* permissions list, and JSON texts whose top level is no mapping
Existings ==
    {UserDoc,
     D("model" :> S("x") @@ "permissions" :> D("allow" :> L(<<"Read">>))),
     D("model" :> S("y") @@ "permissions" :> D("allow" :> L(<<"Read", "Grep">>))),
     L(<<"Read">>),
     S("s"),
     D("env" :> D("AWS_PROFILE" :> S("mine") @@ "proxy" :> S("p") @@ "EXTRA" :> S("e"))
       @@ "permissions" :> D("allow" :> L(<<"Write", "Read">>) @@ "ask" :> L(<<"Grep">>)
                             @@ "defaultMode" :> S("ask") @@ "foo" :> S("b")
                             @@ "other" :> S("o"))
       @@ "theme" :> S("dark")
       @@ "hooks" :> S("off")
       @@ "editor" :> D("tab" :> S("4"))),
     EmptyDoc,
     D("permissions" :> S("all")),
     D("env" :> S("x")),
     D("env" :> L(<<>>) @@ "theme" :> S("dark")),
     D("permissions" :> D("allow" :> L(<<"Read">>) @@ "deny" :> S("Write")))}

\* arguments of deep_merge_settings
MergeDocs ==
    {TemplateDoc, UserDoc,
     D("k" :> L(<<"a", "b">>)),
     D("k" :> L(<<"b", "c">>)),
     D("k" :> L(<<"c", "c", "a">>) @@ "n" :> D("x" :> S("1"))),
     D("k" :> S("a") @@ "n" :> S("s")),
     D("n" :> D("y" :> S("2") @@ "x" :> D("z" :> S("3"))))}

\* source trees whose settings template cannot be read or parsed: text that
\* is no JSON, no file, a directory, bytes that are no UTF-8 text
BrokenSources ==
    {[SourceTree EXCEPT ![HOME_SETTINGS_JSON] = Raw("{")],
     Del(SourceTree, {HOME_SETTINGS_JSON}),
     [SourceTree EXCEPT ![HOME_SETTINGS_JSON] = DirMark],
     [SourceTree EXCEPT ![HOME_SETTINGS_JSON] = Bin("ff")]}

\* the source tree with template t, and ~/.claude absent, with a settings
\* file that does not parse, or with a settings document of Existings
InitMerge ==
    /\ \/ \E t \in Templates,
             h \in {<<>>, HomeBroken} \cup {WithDirs(CLAUDE_SETTINGS :> Json(e)) : e \in Existings} :
             fs = Merge([SourceTree EXCEPT ![HOME_SETTINGS_JSON] = Json(t)],
                        Merge(h, WithDirs(CWD :> DirMark)))
       \/ \E src \in BrokenSources,
             h \in {<<>>, HomeBroken, HomeStale, WithDirs(CLAUDE_SETTINGS :> Json(UserDoc))} :
             fs = Merge(src, Merge(h, WithDirs(CWD :> DirMark)))
    /\ now = 2
    /\ nops = 0
    /\ last = NoOp
    /\ prev = NoOp
    /\ pre = <<>>
    /\ log = <<>>
    /\ ev = <<>>
    /\ taken = NoSnapshot
    /\ ui = NoUi

NextMerge ==
    \/ /\ nops < MaxMerges
       /\ \E base \in MergeDocs, overlay \in MergeDocs :
             Ran(Machine(fs), "deep_merge_settings",
                 [scope |-> "none", base |-> base, overlay |-> overlay,
                  merged |-> D(deep_merge_settings(base.d, overlay.d)),
                  base_after |-> D(BaseAfterMerge(base.d, overlay.d)),
                  overlay_after |-> overlay],
                 NoPath, NoPath, NoPath)
    \/ /\ nops < MaxMerges
       /\ \E default_model \in DOMAIN MODEL_CHOICES :
             Ran(install_global_settings(Machine(fs), default_model, now),
                 "install_global_settings", [scope |-> "none", model |-> default_model],
                 HOME_SETTINGS_JSON, CLAUDE_SETTINGS, NoPath)

SpecMerge == InitMerge /\ [][NextMerge]_vars

(* SpecRestore: snapshots taken and restored from the command line *)

\* main: run_restore_cli(args), with --restore or --restore=TIMESTAMP
RestoreCliHandler ==
    \E args \in RestoreArgs, order \in {"fwd", "rev"} :
        Ran(run_restore_cli(Machine(fs), args, order, now),
            "run_restore_cli", args, NoPath, NoPath, RestoreTarget(fs, args))

NextRestore ==
    \/ Tick
    \/ nops < MaxRestores /\ SnapshotRan(create_snapshot(Machine(fs), now))
    \/ nops < MaxRestores /\ RestoreCliHandler

SpecRestore == Init /\ [][NextRestore]_vars

(* SpecChain: longer sequences of the engine's operations, on one rule *)

NextChain ==
    \/ Tick
    \/ /\ nops < MaxChain
       /\ Ran(smart_install(Machine(fs), Child(HOME_RULES_DIR, "security.md"),
                            Child(CLAUDE_RULES, "security.md"), now),
              "smart_install", NoApp, Child(HOME_RULES_DIR, "security.md"),
              Child(CLAUDE_RULES, "security.md"), NoPath)
    \/ /\ nops < MaxChain
       /\ Ran(remove_with_log(Machine(fs), Child(CLAUDE_RULES, "security.md"), now),
              "remove_with_log", NoApp, NoPath, Child(CLAUDE_RULES, "security.md"), NoPath)
    \/ nops < MaxChain /\ SnapshotRan(create_snapshot(Machine(fs), now))
    \/ nops < MaxChain /\ RestoreHandler

SpecChain == Init /\ [][NextChain]_vars

-----------------------------------------------------------------------------
(* Properties.  Each is stated over the operation that ran last: its inputs *)
(* (last), the filesystem it started from (pre), the one it left (fs), the  *)
(* log it returned (log) and the trace of what it did (ev).                 *)

Seconds == 1..MaxClock

\* the scope of the install run that ran last
ScopeOf(l) == IF l.op = "run_cli" THEN CliScope(l.app) ELSE l.app.scope

GlobalRun(l) == l.op \in {"run_install", "run_cli"} /\ ScopeOf(l) \in {"global", "both"}

\* the snapshot directory the run that ran last got from create_snapshot,
\* NoPath if it got None or took no snapshot
SnapOf(trace) ==
    IF \E i \in 1..Len(trace) : trace[i].a = "snapshot"
    THEN trace[CHOOSE i \in 1..Len(trace) : trace[i].a = "snapshot"].p
    ELSE NoPath

\* p is a file of a tree itself, not a backup and not inside a snapshot
Plain(p) == p.snap = 0 /\ p.baks = <<>>

\* the files of f whose bytes the run changed, or that it deleted
Touched(f, g) == {p \in DOMAIN f : IsFile(f, p) /\ Plain(p) /\ Bytes(g, p) # Bytes(f, p)}

\* a ".bak.<timestamp>" sibling of p in g holds bytes b
InBak(g, p, b) == \E t \in Seconds : Bytes(g, BakPath(p, t)) = b

\* C1: after an install run of scope global or both, every mandatory rule and
\* agent of the catalog is installed with the source's bytes, whatever the
\* selection handed to the run
MandatoryAlwaysInstalled ==
    (last.op = "run_install" /\ last.app.scope \in {"global", "both"}) =>
        /\ \A n \in MANDATORY_RULES :
              InSeq(n, discover_files(pre, HOME_RULES_DIR)) =>
                  Bytes(fs, Child(CLAUDE_RULES, n)) = Bytes(pre, Child(HOME_RULES_DIR, n))
        /\ \A n \in MANDATORY_AGENTS :
              InSeq(n, discover_files(pre, AGENTS_DIR)) =>
                  Bytes(fs, Child(CLAUDE_AGENTS, n)) = Bytes(pre, Child(AGENTS_DIR, n))

\* the destinations the operation that ran last could overwrite or delete
Dests ==
    IF last.op = "restore_snapshot"
    THEN {OutOfSnap(q) : q \in {x \in Below(pre, last.snap) : IsFile(pre, x)}}
    ELSE {last.dest}

\* step i of the trace overwrites or deletes a destination that existed
Destroys(i) ==
    /\ ev[i].a \in {"write", "unlink"}
    /\ ev[i].p \in Dests
    /\ ev[i].old # Absent

RunKeepsPriorState ==
    last.op = "run_install" =>
        \A p \in Touched(pre, fs) :
            \/ InBak(fs, p, Bytes(pre, p))
            \/ /\ SnapOf(ev) # NoPath
               /\ p.root = "home"
               /\ Bytes(fs, InSnap(SnapOf(ev).snap, p)) = Bytes(pre, p)

\* the steps of a trace that write to p
WritesTo(trace, p) == {i \in 1..Len(trace) : trace[i].a = "write" /\ trace[i].p = p}

\* the steps of a trace that change a file
Mutations(trace) == {i \in 1..Len(trace) : trace[i].a \in {"write", "unlink", "rmtree"}}

\* C4: when smart_install is called twice in a row with the same source and
\* destination, the second call logs `current` and writes nothing, and the
\* first call wrote the destination at most once
SecondInstallIsCurrent ==
    [][(/\ nops' = nops + 1
        /\ last.op = "smart_install"
        /\ last'.op = "smart_install"
        /\ last'.src = last.src
        /\ last'.dest = last.dest)
       => /\ log' = <<[status |-> "current", label |-> last.dest, bak |-> NoPath]>>
          /\ fs' = fs
          /\ Mutations(ev') = {}
          /\ Cardinality(WritesTo(ev, last.dest)) + Cardinality(WritesTo(ev', last.dest)) <= 1
      ]_vars

\* C4's case: a call that updated the destination, then the same call again
UpdatedThenCurrent ==
    /\ prev.op = "smart_install"
    /\ last.op = "smart_install"
    /\ prev.src = last.src
    /\ prev.dest = last.dest
    /\ Exists(fs, BakPath(last.dest, prev.ts))
    /\ log[1].status = "current"

\* every path but those of D is in both filesystems, with the same content
SameOutside(f, g, except) ==
    \A p \in ((DOMAIN f) \cup (DOMAIN g)) \ except :
        p \in DOMAIN f /\ p \in DOMAIN g /\ f[p] = g[p]

\* C5: smart_install has three outcomes, decided by the destination: absent,
\* the source is copied and `installed` logged; present with other bytes, it
\* is backed up and overwritten and `updated` logged with the backup; present
\* with the same bytes, nothing is written and `current` logged.  Each time
\* the destination ends with the source's bytes and one entry is logged.
SmartInstallOutcomes ==
    last.op = "smart_install" =>
        LET absent == ~Exists(pre, last.dest)
            differ == ~absent /\ Bytes(pre, last.src) # Bytes(pre, last.dest)
            bak == BakPath(last.dest, last.ts)
        IN  /\ Len(log) = 1
            /\ log[1].label = last.dest
            /\ Bytes(fs, last.dest) = Bytes(pre, last.src)
            /\ absent =>
                  /\ log[1].status = "installed"
                  /\ Cardinality(Mutations(ev)) = 1
                  /\ SameOutside(pre, fs, {last.dest} \cup Ancestors(last.dest))
            /\ differ =>
                  /\ log[1].status = "updated"
                  /\ log[1].bak = bak
                  /\ Bytes(fs, bak) = Bytes(pre, last.dest)
                  /\ Cardinality(Mutations(ev)) = 2
                  /\ SameOutside(pre, fs, {last.dest, bak})
            /\ (~absent /\ ~differ) =>
                  /\ log[1].status = "current"
                  /\ Mutations(ev) = {}
                  /\ fs = pre

\* C5's case: the destination held other bytes and was updated
SmartInstallUpdated ==
    /\ last.op = "smart_install"
    /\ Exists(pre, last.dest)
    /\ Bytes(pre, last.dest) # Bytes(pre, last.src)
    /\ log[1].status = "updated"
    /\ Bytes(fs, last.dest) = Bytes(fs, last.src)

\* C6: remove_with_log on an absent destination changes no file and logs
\* nothing; on an existing one it logs one `removed` entry, the destination
\* is gone, and no file but the new backup is created or changed
RemoveFrame ==
    last.op = "remove_with_log" =>
        IF ~Exists(pre, last.dest)
        THEN fs = pre /\ log = <<>> /\ ev = <<>>
        ELSE /\ Len(log) = 1
             /\ log[1].status = "removed"
             /\ log[1].label = last.dest
             /\ ~Exists(fs, last.dest)
             /\ Bytes(fs, BakPath(last.dest, last.ts)) = Bytes(pre, last.dest)
             /\ SameOutside(pre, fs, {last.dest, BakPath(last.dest, last.ts)})

\* C6's case: the destination existed and was removed
RemovedExisting ==
    /\ last.op = "remove_with_log"
    /\ Exists(pre, last.dest)
    /\ ~Exists(fs, last.dest)
    /\ log[1].status = "removed"

\* the file a backup or a snapshot copy is a version of
Base(q) == [q EXCEPT !.snap = 0, !.baks = <<>>]

\* the versions kept: each backup file's and each snapshot file's bytes, with
\* the file they are a version of
Versions(f) ==
    {<<Base(q), Bytes(f, q)>> :
        q \in {x \in DOMAIN f : IsFile(f, x) /\ x.root = "home" /\ ~Plain(x)}}

\* C7: no operation destroys a version kept in a backup file or a snapshot:
\* whatever was recoverable before it stays recoverable from some backup file
\* or snapshot after it, also when operations share a clock second
VersionsStayRecoverable ==
    [][Versions(fs) \subseteq Versions(fs')]_vars

\* the files and directories inside the snapshot directories of f
InSnapshots(f) == {p \in DOMAIN f : p.snap # 0}

\* C8: once a snapshot directory is written, no later operation adds,
\* changes or deletes a file inside it, at any clock value
SnapshotsImmutable ==
    [][/\ \A p \in InSnapshots(fs) : p \in DOMAIN fs' /\ fs'[p] = fs[p]
       /\ \A p \in InSnapshots(fs') : Exists(fs, SnapDir(p.snap)) => p \in DOMAIN fs
      ]_vars

\* the managed files of the target tree: the three top-level files and what
\* the directories rules/, agents/ and tasks/ hold
Managed(f) ==
    {p \in DOMAIN f :
        /\ IsFile(f, p)
        /\ p.root = "home"
        /\ p.snap = 0
        /\ \/ p \in {CLAUDE_MD, CLAUDE_SETTINGS, CLAUDE_STATUSLINE}
           \/ Parent(p) \in {CLAUDE_RULES, CLAUDE_AGENTS, CLAUDE_TASKS}}

\* step i of the trace changes the target tree outside the snapshots
WritesTarget(i) ==
    /\ ev[i].a \in {"write", "unlink", "rmtree", "mkdir"}
    /\ ev[i].p.root = "home"
    /\ ev[i].p.snap = 0
    /\ ev[i].p # BACKUPS_DIR

\* in an install run of scope global or both, create_snapshot returns before
\* the first change to the target tree
SnapshotBeforeWrites ==
    GlobalRun(last) =>
        \E i \in 1..Len(ev) :
            /\ ev[i].a = "snapshot"
            /\ \A j \in 1..Len(ev) : WritesTarget(j) => i < j

\* C9: in an install run of scope global or both, create_snapshot returns
\* before the first change to the target tree, and the snapshot it made holds
\* the pre-run bytes of every managed file the run overwrites or removes
SnapshotHoldsPriorState ==
    /\ SnapshotBeforeWrites
    /\ (GlobalRun(last) /\ SnapOf(ev) # NoPath) =>
          \A p \in Managed(pre) \cap Touched(pre, fs) :
              Bytes(fs, InSnap(SnapOf(ev).snap, p)) = Bytes(pre, p)

\* the files create_snapshot wrote
Copied == {ev[i].p : i \in {j \in 1..Len(ev) : ev[j].a = "write"}}

\* create_snapshot copied exactly the files of from, each to the same
\* relative path under backups/<timestamp>/ with the same bytes, returned
\* None exactly when there were none, and left the rest of the target tree
\* as it was
SnapshotIsExactly(from) ==
    /\ (last.snap = NoPath) <=> (from = {})
    /\ Copied = {InSnap(last.ts, p) : p \in from}
    /\ \A p \in from : Bytes(fs, InSnap(last.ts, p)) = Bytes(pre, p)
    /\ \A p \in Copied : ~IsSymlink(fs, p)
    /\ \A p \in DOMAIN pre : p \in DOMAIN fs /\ (p \notin Copied => fs[p] = pre[p])
    /\ \A p \in (DOMAIN fs) \ (DOMAIN pre) :
          p.snap = last.ts \/ p = BACKUPS_DIR

\* the managed files as the specification lists them: the settings document,
\* CLAUDE.md and every file under rules/, agents/ and tasks/
ListedFiles(f) ==
    {p \in DOMAIN f :
        /\ IsFile(f, p)
        /\ p.root = "home"
        /\ p.snap = 0
        /\ \/ p \in {CLAUDE_MD, CLAUDE_SETTINGS}
           \/ {CLAUDE_RULES, CLAUDE_AGENTS, CLAUDE_TASKS} \cap Ancestors(p) # {}}

\* the files create_snapshot takes: the settings document, CLAUDE.md,
\* statusline.sh, and the regular files, symbolic links left out, directly
\* inside rules/, agents/ and tasks/
SnappedFiles(f) == {p \in Managed(f) : ~IsSymlink(f, p) \/ Parent(p) = CLAUDE_HOME}

SnapshotOfNothing ==
    (last.op = "create_snapshot"
        /\ (~Exists(pre, CLAUDE_HOME) \/ SnappedFiles(pre) = {})) =>
        /\ last.snap = NoPath
        /\ fs = pre
        /\ ~Exists(fs, SnapDir(last.ts)) \/ Exists(pre, SnapDir(last.ts))
        /\ ev = <<>>
        /\ log = <<>>

\* C11's case: the target root exists, with files in it and a directory below
\* rules/, and create_snapshot returned None
NothingToSnapshot ==
    /\ last.op = "create_snapshot"
    /\ Exists(pre, CLAUDE_HOME)
    /\ Exists(pre, CLAUDE_RULES)
    /\ SnappedFiles(pre) = {}
    /\ last.snap = NoPath

\* the files of the snapshot restore_snapshot was called with
Items == {q \in Below(pre, last.snap) : IsFile(pre, q) /\ ~IsSymlink(pre, q)}

\* the destination resolves to a place outside the target root: it is a
\* symbolic link, and every link of the target tree points out of it
ResolvesOutside(f, dest) == dest.root # "home" \/ IsSymlink(f, dest)

\* the files of the snapshot whose destination resolves outside the target root
Escapes == {q \in Items : ResolvesOutside(pre, OutOfSnap(q))}

\* the steps of the trace that touch path p
StepsOn(p) == {i \in 1..Len(ev) : ev[i].a # "log" /\ ev[i].p = p}

\* the log entries for destination p
EntriesFor(p) == {i \in 1..Len(log) : log[i].label = p}

\* C12: restore_snapshot skips every snapshot file whose destination resolves
\* outside the target root: the destination and what it points to stay as
\* they were, no backup is made for it, no step of the trace touches it and
\* no log entry names it; nothing outside the target root and no symbolic
\* link changes; every other file of the snapshot gets its log entry
RestoreSkipsEscapes ==
    last.op = "restore_snapshot" =>
        /\ \A q \in Escapes :
              /\ OutOfSnap(q) \in DOMAIN fs
              /\ fs[OutOfSnap(q)] = pre[OutOfSnap(q)]
              /\ StepsOn(OutOfSnap(q)) = {}
              /\ EntriesFor(OutOfSnap(q)) = {}
              /\ BakPath(OutOfSnap(q), last.ts) \notin {OutOfSnap(x) : x \in Items} =>
                    /\ StepsOn(BakPath(OutOfSnap(q), last.ts)) = {}
                    /\ ~Exists(fs, BakPath(OutOfSnap(q), last.ts))
                          \/ Exists(pre, BakPath(OutOfSnap(q), last.ts))
        /\ \A p \in (DOMAIN pre) \cup (DOMAIN fs) :
              (p.root # "home" \/ IsSymlink(pre, p)) =>
                  p \in DOMAIN pre /\ p \in DOMAIN fs /\ fs[p] = pre[p]
        /\ \A i \in 1..Len(ev) : ev[i].a # "log" => ev[i].p.root = "home"
        /\ \A q \in Items \ Escapes : Cardinality(EntriesFor(OutOfSnap(q))) = 1

\* C12's case: a snapshot with a file whose destination is a link out of the
\* target root and holds other bytes, restored together with other files
EscapeSkipped ==
    /\ last.op = "restore_snapshot"
    /\ \E q \in Escapes : Bytes(pre, OutOfSnap(q)) # Bytes(pre, q)
    /\ \E i \in 1..Len(log) : log[i].status = "restored"

\* C13: for every file of the snapshot that passes the containment check
\* restore_snapshot appends exactly one log entry: `current`, with no write,
\* when the destination held the snapshot's bytes, otherwise `restored`,
\* with the destination written once; when it returns, every such
\* destination holds the snapshot's bytes
RestoreOutcomes ==
    last.op = "restore_snapshot" =>
        \A q \in Items \ Escapes :
            /\ Cardinality(EntriesFor(OutOfSnap(q))) = 1
            /\ \A i \in EntriesFor(OutOfSnap(q)) :
                  IF Bytes(pre, OutOfSnap(q)) = Bytes(pre, q)
                  THEN log[i].status = "current" /\ WritesTo(ev, OutOfSnap(q)) = {}
                  ELSE /\ log[i].status = "restored"
                       /\ Cardinality(WritesTo(ev, OutOfSnap(q))) = 1
            /\ Bytes(fs, OutOfSnap(q)) = Bytes(pre, q)

\* the operation that ran last restored the snapshot the last direct call of
\* create_snapshot made, and only smart_install and remove_with_log were
\* called in between
RoundTripDone ==
    /\ last.op = "restore_snapshot"
    /\ taken.snap # NoPath
    /\ last.snap = taken.snap
    /\ \A i \in 1..(Len(taken.since) - 1) :
          taken.since[i] \in {"smart_install", "remove_with_log"}

\* C14: after create_snapshot, any smart_install and remove_with_log calls
\* and restore_snapshot of that snapshot, every file the snapshot recorded is
\* at its path with the bytes it had when the snapshot was taken; a file
\* deleted or changed in between is logged `restored`, a file still holding
\* those bytes `current`
RoundTrip ==
    RoundTripDone =>
        \A p \in SnappedFiles(taken.fs) :
            /\ Bytes(fs, p) = Bytes(taken.fs, p)
            /\ Cardinality(EntriesFor(p)) = 1
            /\ \A i \in EntriesFor(p) :
                  log[i].status =
                      IF Bytes(pre, p) = Bytes(taken.fs, p) THEN "current" ELSE "restored"

\* how many entries of the log l are e
Count(l, e) == Cardinality({i \in 1..Len(l) : l[i] = e})

\* the logs l and k hold the same entries, each as many times
SameEntries(l, k) ==
    \A e \in {l[i] : i \in 1..Len(l)} \cup {k[i] : i \in 1..Len(k)} :
        Count(l, e) = Count(k, e)

\* the restore that ran last, run from the same filesystem with the
\* snapshot's files in the order o
Reordered(o) == restore_snapshot(Machine(pre), last.snap, o, last.ts)

\* the same snapshot restored once more, now, in the order o
Again(o) == restore_snapshot(Machine(fs), last.snap, o, now)

\* C15: restore_snapshot is idempotent and independent of the order of the
\* snapshot's files: whatever the order, the restore that ran last leaves
\* the same filesystem and the same log entries, and restoring the same
\* snapshot once more logs only `current` and writes nothing
RestoreIdempotentAnyOrder ==
    last.op = "restore_snapshot" =>
        \A o \in {"fwd", "rev"} :
            /\ Reordered(o).fs = fs
            /\ SameEntries(Reordered(o).log, log)
            /\ Again(o).fs = fs
            /\ \A i \in 1..Len(Again(o).log) : Again(o).log[i].status = "current"
            /\ \A i \in 1..Len(Again(o).ev) : Again(o).ev[i].a = "log"

\* the snapshot directories of f: the directories directly under backups/
\* named by a timestamp
SnapshotDirs(f) ==
    {d \in DOMAIN f : Parent(d) = BACKUPS_DIR /\ IsDir(f, d) /\ TimestampName(d)}

\* C16: discover_snapshots returns exactly the directories directly under
\* backups/ whose name is a timestamp, newest first; run_restore_cli without
\* a timestamp restores the first of them, the most recent snapshot
NewestSnapshotFirst ==
    /\ {SnapDir(discover_snapshots(fs)[i]) : i \in 1..Len(discover_snapshots(fs))}
           = SnapshotDirs(fs)
    /\ Len(discover_snapshots(fs)) = Cardinality(SnapshotDirs(fs))
    /\ \A i \in 1..(Len(discover_snapshots(fs)) - 1) :
          discover_snapshots(fs)[i] > discover_snapshots(fs)[i + 1]
    /\ (last.op = "run_restore_cli" /\ ~last.app.given) =>
          /\ (last.snap = NoPath) <=> (SnapshotDirs(pre) = {})
          /\ last.snap # NoPath =>
                /\ last.snap \in SnapshotDirs(pre)
                /\ last.snap = SnapDir(discover_snapshots(pre)[1])
                /\ \A d \in SnapshotDirs(pre) : d.snap <= last.snap.snap
                /\ fs = restore_snapshot(Machine(pre), last.snap, "fwd", last.ts).fs
                      \/ fs = restore_snapshot(Machine(pre), last.snap, "rev", last.ts).fs

\* C16's case: backups/ holds two snapshots, a directory with another name
\* and a file named by a later timestamp; the restore took the newer snapshot
LatestRestored ==
    /\ last.op = "run_restore_cli"
    /\ ~last.app.given
    /\ Cardinality(SnapshotDirs(pre)) = 2
    /\ \E d \in DOMAIN pre : Parent(d) = BACKUPS_DIR /\ IsDir(pre, d) /\ ~TimestampName(d)
    /\ \E d \in DOMAIN pre : Parent(d) = BACKUPS_DIR /\ ~IsDir(pre, d)
                                /\ d.snap > last.snap.snap
    /\ last.snap = SnapDir(last.ts)
    /\ Len(log) > 0

\* the index of the first occurrence of x in the list l
FirstIndex(l, x) == CHOOSE i \in 1..Len(l) : l[i] = x /\ \A j \in 1..(i - 1) : l[j] # x

\* r is the list b followed by the elements of o that are not in b, each
\* once, in the order of their first occurrence in o
DeduplicatedAppend(b, o, r) ==
    /\ Len(r) >= Len(b)
    /\ SubSeq(r, 1, Len(b)) = b
    /\ {r[i] : i \in (Len(b) + 1)..Len(r)}
          = {o[i] : i \in 1..Len(o)} \ {b[i] : i \in 1..Len(b)}
    /\ \A i \in (Len(b) + 1)..Len(r), j \in (Len(b) + 1)..Len(r) :
          i < j => r[i] # r[j] /\ FirstIndex(o, r[i]) < FirstIndex(o, r[j])

\* C17: where base and overlay both hold a list under a key,
\* deep_merge_settings gives the base list followed by each overlay element
\* not already present, once, in overlay order of first occurrence
MergedListsDeduplicate ==
    last.op = "deep_merge_settings" =>
        \A key \in (DOMAIN last.app.base.d) \cap (DOMAIN last.app.overlay.d) :
            (last.app.base.d[key].k = "l" /\ last.app.overlay.d[key].k = "l") =>
                /\ last.app.merged.d[key].k = "l"
                /\ DeduplicatedAppend(last.app.base.d[key].l, last.app.overlay.d[key].l,
                                      last.app.merged.d[key].l)

\* C17's case: [a, b] merged with [b, c] is [a, b, c]
MergedABC ==
    /\ last.op = "deep_merge_settings"
    /\ last.app.base = D("k" :> L(<<"a", "b">>))
    /\ last.app.overlay = D("k" :> L(<<"b", "c">>))
    /\ last.app.merged = D("k" :> L(<<"a", "b", "c">>))

\* install_global_settings has run to its end with a template that parses
SettingsMerged ==
    last.op = "install_global_settings" /\ ~last.exc /\ Parses(pre, HOME_SETTINGS_JSON)

\* the template and the existing document it read, and the document in the
\* settings file when it returned
SettingsTemplate == Data(pre[HOME_SETTINGS_JSON]).v
SettingsExisting == IF Parses(pre, CLAUDE_SETTINGS) THEN Data(pre[CLAUDE_SETTINGS]).v ELSE EmptyDoc
SettingsProduced == Data(fs[CLAUDE_SETTINGS]).v

\* the key paths of a value: every key of a mapping, at every nesting level
RECURSIVE KeyPaths(_)
KeyPaths(v) ==
    IF v.k # "d" THEN {}
    ELSE UNION {{<<key>>} \cup {<<key>> \o p : p \in KeyPaths(v.d[key])} : key \in DOMAIN v.d}

\* r has every key of a and of b; below a key that a and b both map to a
\* mapping the same holds again, and below a key of one of them only, r has
\* every key path of that one
RECURSIVE KeysKept(_, _, _)
KeysKept(a, b, r) ==
    \A key \in (DOMAIN a) \cup (DOMAIN b) :
        /\ key \in DOMAIN r
        /\ IF key \in DOMAIN a /\ key \in DOMAIN b
           THEN (a[key].k = "d" /\ b[key].k = "d") =>
                    r[key].k = "d" /\ KeysKept(a[key].d, b[key].d, r[key].d)
           ELSE IF key \in DOMAIN a THEN KeyPaths(a[key]) \subseteq KeyPaths(r[key])
           ELSE KeyPaths(b[key]) \subseteq KeyPaths(r[key])

\* C18, as stated: the result of deep_merge_settings and the document
\* install_global_settings produces hold every key, at every nesting level,
\* of either input
AllKeyPathsKept ==
    /\ last.op = "deep_merge_settings" =>
           KeyPaths(last.app.base) \cup KeyPaths(last.app.overlay)
               \subseteq KeyPaths(last.app.merged)
    /\ SettingsMerged =>
           KeyPaths(SettingsTemplate) \cup KeyPaths(SettingsExisting)
               \subseteq KeyPaths(SettingsProduced)

\* C18, amended: the result of deep_merge_settings and the document
\* install_global_settings produces hold every top-level key of either
\* input, every key below a key that only one input has, and, recursively,
\* every key of either mapping where both inputs hold a mapping under the
\* same key; where a mapping meets a value of another kind under one key,
\* the keys below the mapping need not be kept
KeysKeptWhereMappingsMeet ==
    /\ last.op = "deep_merge_settings" =>
           KeysKept(last.app.base.d, last.app.overlay.d, last.app.merged.d)
    /\ SettingsMerged =>
           KeysKept(SettingsTemplate.d, SettingsExisting.d, SettingsProduced.d)

\* C18's case: mappings met under n and were merged; under n.x a mapping
\* replaced a scalar
NestedKeysMerged ==
    /\ last.op = "deep_merge_settings"
    /\ last.app.base = D("k" :> L(<<"c", "c", "a">>) @@ "n" :> D("x" :> S("1")))
    /\ last.app.overlay = D("n" :> D("y" :> S("2") @@ "x" :> D("z" :> S("3"))))
    /\ last.app.merged = D("k" :> L(<<"c", "c", "a">>)
                           @@ "n" :> D("y" :> S("2") @@ "x" :> D("z" :> S("3"))))

\* the value under key in v, the empty string where v has none
At(v, key) == IF v.k = "d" /\ key \in DOMAIN v.d THEN v.d[key] ELSE S("")

\* every item of the list l is in the value v
HoldsItems(v, l) == \A i \in 1..Len(l) : Contains(v, l[i])

\* r has every key of t; a scalar of t has t's value in r, a list of t has
\* its elements in a list of r, and a mapping of t is forced in r likewise
RECURSIVE Forced(_, _)
Forced(t, r) ==
    \A key \in DOMAIN t :
        /\ key \in DOMAIN r
        /\ CASE t[key].k = "s" -> r[key] = t[key]
             [] t[key].k = "l" -> r[key].k = "l" /\ HoldsItems(r[key], t[key].l)
             [] t[key].k = "d" -> r[key].k = "d" /\ Forced(t[key].d, r[key].d)

\* the permissions r produced from the template's tp and the existing ep
\* (mappings): each key of tp is in r; defaultMode and
\* disableBypassPermissionsMode have tp's value; allow, deny and ask hold tp's
\* items, first and in tp's order, then ep's other items, when ep has a list
\* or nothing there; any other key has ep's value when ep has the key
PermsForced(tp, ep, r) ==
    \A key \in DOMAIN tp :
        /\ key \in DOMAIN r
        /\ CASE key \in PermScalarKeys -> r[key] = tp[key]
             [] key \in PermListKeys ->
                    /\ HoldsItems(r[key], tp[key].l)
                    /\ Get(ep, key, L(<<>>)).k = "l" =>
                           /\ r[key].k = "l"
                           /\ DeduplicatedAppend(tp[key].l, Get(ep, key, L(<<>>)).l, r[key].l)
             [] OTHER -> r[key] = Get(ep, key, tp[key])

\* the existing document's permissions are a mapping, or absent
PermsMapping == Get(SettingsExisting.d, "permissions", EmptyDoc).k = "d"

UserValuesKept ==
    SettingsMerged =>
        \A key \in (DOMAIN SettingsExisting.d) \ {"env", "permissions", "model"} :
            (SettingsExisting.d[key].k = "s" \/ key \notin DOMAIN SettingsTemplate.d) =>
                /\ key \in DOMAIN SettingsProduced.d
                /\ SettingsProduced.d[key] = SettingsExisting.d[key]

\* C20's case: the template's theme is light, the user's dark; the settings
\* file was rewritten and theme, hooks and editor are the user's
UserThemeKept ==
    /\ SettingsMerged
    /\ Parses(pre, CLAUDE_SETTINGS)
    /\ fs[CLAUDE_SETTINGS] # pre[CLAUDE_SETTINGS]
    /\ At(SettingsTemplate, "theme") = S("light")
    /\ At(SettingsTemplate, "hooks") = D("pre" :> S("t"))
    /\ At(SettingsProduced, "theme") = S("dark")
    /\ At(SettingsProduced, "hooks") = S("off")
    /\ At(SettingsProduced, "editor") = D("tab" :> S("4"))

\* C21: with a model token other than none, the produced settings document
\* has the model mapped from the token, whatever model the existing document
\* had; with the token none an existing model is kept; and from existing
\* {model: x, permissions.allow: [Read]} and template {model: y,
\* permissions.allow: [Read, Grep]} the produced allow list is [Read, Grep]
ModelKey ==
    SettingsMerged =>
        /\ last.app.model # "none" =>
               At(SettingsProduced, "model") = S(MODEL_CHOICES[last.app.model])
        /\ (last.app.model = "none" /\ "model" \in DOMAIN SettingsExisting.d) =>
               At(SettingsProduced, "model") = SettingsExisting.d["model"]
        /\ ( /\ SettingsExisting
                  = D("model" :> S("x") @@ "permissions" :> D("allow" :> L(<<"Read">>)))
             /\ SettingsTemplate
                  = D("model" :> S("y")
                      @@ "permissions" :> D("allow" :> L(<<"Read", "Grep">>))) ) =>
               At(At(SettingsProduced, "permissions"), "allow") = L(<<"Read", "Grep">>)

\* C21's case: opus selected over the existing model x and the template's y
ModelSelectedOverExisting ==
    /\ SettingsMerged
    /\ last.app.model = "opus"
    /\ At(SettingsExisting, "model") = S("x")
    /\ At(SettingsTemplate, "model") = S("y")
    /\ SettingsProduced
         = D("model" :> S("us.anthropic.claude-opus-4-6-v1")
             @@ "permissions" :> D("allow" :> L(<<"Read", "Grep">>)))

\* the entries of a log that classify the settings document
IsSettingsEntry(e) == e.label = CLAUDE_SETTINGS /\ e.status \in {"current", "updated", "installed"}
SettingsEntries(l) == SelectSeq(l, IsSettingsEntry)

\* the trace writes the settings file or a backup of it
SettingsWritten(trace) ==
    \E i \in 1..Len(trace) :
        trace[i].a \in {"write", "unlink"} /\ [trace[i].p EXCEPT !.baks = <<>>] = CLAUDE_SETTINGS

\* install_global_settings run once more, in the state the last run left
SettingsAgain == install_global_settings(Machine(fs), last.app.model, now)

\* C22: install_global_settings classifies the settings document once; it
\* logs current, and writes nothing, exactly when the merged document equals
\* the existing one; otherwise it writes the merged document, logging updated
\* after a backup of a non-empty existing document, and installed when there
\* was no existing document or an empty one; run again with the same
\* template and model token it logs current and leaves every file unchanged
SettingsChangeDetection ==
    SettingsMerged =>
        /\ Len(SettingsEntries(log)) = 1
        /\ SettingsEntries(log)[1].status = "current" <=>
               (Parses(pre, CLAUDE_SETTINGS) /\ SettingsProduced = SettingsExisting)
        /\ SettingsEntries(log)[1].status = "current" =>
               /\ ~SettingsWritten(ev)
               /\ fs[CLAUDE_SETTINGS] = pre[CLAUDE_SETTINGS]
        /\ SettingsEntries(log)[1].status = "updated" <=>
               /\ SettingsProduced # SettingsExisting
               /\ Exists(pre, CLAUDE_SETTINGS)
               /\ SettingsExisting # EmptyDoc
        /\ SettingsEntries(log)[1].status = "updated" =>
               /\ SettingsEntries(log)[1].bak = BakPath(CLAUDE_SETTINGS, last.ts)
               /\ Bytes(fs, BakPath(CLAUDE_SETTINGS, last.ts)) = Bytes(pre, CLAUDE_SETTINGS)
        /\ SettingsEntries(log)[1].status = "installed" <=>
               /\ SettingsProduced # SettingsExisting
               /\ ~Exists(pre, CLAUDE_SETTINGS) \/ SettingsExisting = EmptyDoc
        /\ ~SettingsAgain.exc
        /\ SettingsAgain.fs = fs
        /\ ~SettingsWritten(SettingsAgain.ev)
        /\ Len(SettingsEntries(SettingsAgain.log)) = 1
        /\ SettingsEntries(SettingsAgain.log)[1].status = "current"

\* C22's case: the user's document was backed up and the merged one written
\* and logged as updated
SettingsUpdatedOnce ==
    /\ SettingsMerged
    /\ SettingsExisting = UserDoc
    /\ SettingsProduced # UserDoc
    /\ \E i \in 1..Len(log) : log[i].status = "updated" /\ log[i].label = CLAUDE_SETTINGS
    /\ Bytes(fs, BakPath(CLAUDE_SETTINGS, last.ts)) = Json(UserDoc)

\* the existing settings file holds no settings document: its text does not
\* parse, or parses to a value that is no mapping
CorruptSettings ==
    /\ Exists(pre, CLAUDE_SETTINGS)
    /\ ~(Parses(pre, CLAUDE_SETTINGS) /\ Data(pre[CLAUDE_SETTINGS]).v.k = "d")

\* C23: from an existing settings file that holds no settings document,
\* install_global_settings completes: the file's bytes are in a backup, a
\* warning is logged, and the document written is the template's (with the
\* selected model)
CorruptSettingsHandled ==
    ( /\ last.op = "install_global_settings"
      /\ Parses(pre, HOME_SETTINGS_JSON)
      /\ CorruptSettings ) =>
        /\ ~last.exc
        /\ Bytes(fs, BakPath(CLAUDE_SETTINGS, last.ts)) = Bytes(pre, CLAUDE_SETTINGS)
        /\ \E i \in 1..Len(log) : log[i].status = "warning" /\ log[i].label = CLAUDE_SETTINGS
        /\ SettingsProduced = D(TemplateOf(pre, last.app.model))

\* the log status smart_install gives for a file_status
OutcomeOf(status) ==
    CASE status = "new" -> "installed"
      [] status = "update" -> "updated"
      [] status = "installed" -> "current"

\* C25: file_status returns new exactly when the destination does not exist,
\* installed exactly when it exists with the source's bytes and update
\* exactly when it exists with other bytes; it writes nothing and logs
\* nothing; and a smart_install of the same pair started in the state it was
\* computed in logs the corresponding outcome
FileStatusClassifies ==
    /\ last.op = "file_status" =>
          /\ last.app.status \in {"new", "installed", "update"}
          /\ last.app.status = "new" <=> last.dest \notin DOMAIN pre
          /\ last.app.status = "installed" <=>
                 (last.dest \in DOMAIN pre /\ Data(pre[last.dest]) = Data(pre[last.src]))
          /\ last.app.status = "update" <=>
                 (last.dest \in DOMAIN pre /\ Data(pre[last.dest]) # Data(pre[last.src]))
          /\ fs = pre
          /\ ev = <<>>
          /\ log = <<>>
    /\ ( /\ last.op = "smart_install"
         /\ prev.op = "file_status"
         /\ prev.src = last.src
         /\ prev.dest = last.dest ) =>
          /\ Len(log) = 1
          /\ log[1].status = OutcomeOf(prev.app.status)

\* C25's case: file_status found an update, and the smart_install after it
\* logged updated
UpdateThenUpdated ==
    /\ last.op = "smart_install"
    /\ prev.op = "file_status"
    /\ prev.src = last.src
    /\ prev.dest = last.dest
    /\ prev.app.status = "update"
    /\ log[1].status = "updated"

\* the position of name n in the order of names
NameIndex(n) == CHOOSE i \in 1..Len(NameOrder) : NameOrder[i] = n

\* C28: discover_files returns the names of exactly the entries of the
\* directory that are regular files, no symbolic links, with the .md
\* extension, each once, ascending by name; and the empty list when the
\* directory does not exist
DiscoverFilesExact ==
    last.op = "discover_files" =>
        /\ {last.app.names[i] : i \in 1..Len(last.app.names)}
              = {q.parts[Len(q.parts)] : q \in {e \in DOMAIN pre :
                     /\ Parent(e) = last.src
                     /\ e.baks = <<>>
                     /\ pre[e].t \notin {"dir", "link"}
                     /\ HasMdSuffix(e.parts[Len(e.parts)])}}
        /\ \A i \in 1..Len(last.app.names), j \in 1..Len(last.app.names) :
              i < j => NameIndex(last.app.names[i]) < NameIndex(last.app.names[j])
        /\ last.src \notin DOMAIN pre => last.app.names = <<>>
        /\ ~last.exc
        /\ fs = pre

\* C28's case: the source rules directory holds two rules, a text file and
\* a link; the two rules are returned, security.md first
DiscoveredRules ==
    /\ last.op = "discover_files"
    /\ last.src = HOME_RULES_DIR
    /\ Child(HOME_RULES_DIR, "notes.txt") \in DOMAIN pre
    /\ IsSymlink(pre, Child(HOME_RULES_DIR, "linked.md"))
    /\ last.app.names = <<"security.md", "style.md">>

\* the source catalog in f: the files and directories under SCRIPT_DIR
SourcePart(f) == [p \in {q \in DOMAIN f : q.root = "src"} |-> f[p]]

\* C26: no step of the engine (an install run from the wizard or the command
\* line, with its removals, settings merge and snapshot, a restore, an
\* uninstall) creates, changes or deletes a file of the source catalog
SourceNeverChanges == [][SourcePart(fs') = SourcePart(fs)]_vars

\* C26's case: an uninstall and then an install run have both changed the
\* target tree, and the source catalog is the initial one
SourceKeptByRuns ==
    /\ prev.op = "run_uninstall"
    /\ last.op = "run_install"
    /\ last.app.scope = "both"
    /\ ~last.exc
    /\ fs # pre
    /\ SourcePart(fs) = SourcePart(SourceTree)

\* the steps of the trace that append to the log, and the number of them
\* among the first i steps
LogSteps == {i \in 1..Len(ev) : ev[i].a = "log"}
LogIndex(i) == Cardinality({j \in LogSteps : j <= i})

\* the steps of the trace that create, overwrite or delete a file
FileSteps == {i \in 1..Len(ev) : ev[i].a \in {"write", "unlink", "rmtree"}}

\* log step j is the first one after step i
NextLogStep(i, j) == j \in LogSteps /\ i < j /\ \A h \in LogSteps : ~(i < h /\ h < j)

\* entry e reports a change of path p: it names p, or the backup p, or the
\* snapshot directory p is in
Reports(e, p) ==
    \/ e.label = p
    \/ e.bak = p
    \/ e.status = "snapshot" /\ p.snap # 0 /\ p.root = e.label.root /\ p.snap = e.label.snap

\* C27: in an install run the log is the list of the trace's appends, in
\* their order (nothing is removed, reordered or rewritten); every file the
\* run creates, overwrites or deletes is reported by the entry appended next;
\* an installed, updated or removed entry is appended after the change of
\* the file it names, and a current or skipped entry after no change
LogIsCompleteRecord ==
    last.op = "run_install" =>
        /\ Len(log) = Cardinality(LogSteps)
        /\ \A j \in LogSteps : log[LogIndex(j)].label = ev[j].p
        /\ \A i \in FileSteps :
              \E j \in LogSteps : NextLogStep(i, j) /\ Reports(log[LogIndex(j)], ev[i].p)
        /\ \A j \in LogSteps :
              /\ log[LogIndex(j)].status \in {"installed", "updated", "removed"} =>
                     \E i \in FileSteps : NextLogStep(i, j) /\ ev[i].p = ev[j].p
              /\ log[LogIndex(j)].status \in {"current", "skipped"} =>
                     ~\E i \in FileSteps : NextLogStep(i, j)

\* C27's case: a run that took a snapshot, updated one file after a backup,
\* removed one and found one current
RunLoggedEveryChange ==
    /\ last.op = "run_install"
    /\ ~last.exc
    /\ \A st \in {"snapshot", "updated", "removed", "installed", "current"} :
          \E k \in 1..Len(log) : log[k].status = st
    /\ Cardinality(FileSteps) > Len(log)

\* the regular files run_uninstall deleted
UninstallDeleted == {p \in DOMAIN pre : IsFile(pre, p) /\ ~IsSymlink(pre, p) /\ p \notin DOMAIN fs}

\* C29: every file run_uninstall deletes is, with its bytes, in the snapshot
\* the same uninstall took, and restoring that snapshot brings it back with
\* those bytes
UninstallDeletesOnlySnapped ==
    last.op = "run_uninstall" =>
        \A p \in UninstallDeleted :
            /\ SnapOf(ev) # NoPath
            /\ Bytes(fs, InSnap(SnapOf(ev).snap, p)) = Bytes(pre, p)
            /\ \A order \in {"fwd", "rev"} :
                  Bytes(restore_snapshot(Machine(fs), SnapOf(ev), order, now).fs, p)
                      = Bytes(pre, p)

-----------------------------------------------------------------------------
(* SpecWizard: the screens of the wizard *)

\* is_fresh_install()
is_fresh_install(f) == ~Exists(f, CLAUDE_MD)

\* build_file_info(source_files, install_dir, mandatory): name, status, mandatory
build_file_info(f, source_files, src_dir, install_dir, mandatory) ==
    [i \in 1..Len(source_files) |->
        [name |-> source_files[i],
         status |-> file_status(f, Child(src_dir, source_files[i]),
                                Child(install_dir, source_files[i])),
         mandatory |-> source_files[i] \in mandatory]]

\* InstallerApp.__init__, and ScopeScreen on top once mounted; the two
\* selection lists do not exist yet.  rules_stored and agents_stored record
\* that RulesScreen.action_next and AgentsScreen.action_next have assigned
\* selected_rules and selected_agents in this session
InstallerApp(f) ==
    [screen |-> "scope",
     scope |-> "global",
     selected_rules |-> {},
     selected_agents |-> {},
     rules_stored |-> FALSE,
     agents_stored |-> FALSE,
     create_global_tasks |-> TRUE,
     create_project_tasks |-> TRUE,
     auto_read |-> FALSE,
     selected_model |-> "sonnet",
     in_repo |-> is_git_repo(f, CWD),
     fresh_install |-> is_fresh_install(f),
     rule_info |-> build_file_info(f, discover_files(f, HOME_RULES_DIR), HOME_RULES_DIR,
                                   CLAUDE_RULES, MANDATORY_RULES),
     agent_info |-> build_file_info(f, discover_files(f, AGENTS_DIR), AGENTS_DIR,
                                    CLAUDE_AGENTS, MANDATORY_AGENTS),
     rules_list |-> {}, rules_toggled |-> 0,
     agents_list |-> {}, agents_toggled |-> 0]

\* RulesScreen.compose and AgentsScreen.compose: the values pre-selected
Checked(fresh, info) ==
    {info[i].name : i \in {j \in 1..Len(info) :
                              fresh \/ info[j].status # "new" \/ info[j].mandatory}}

\* the values of a list
Values(info) == {info[i].name : i \in 1..Len(info)}

\* the widget's toggle of one value
Toggle(selected, name) ==
    IF name \in selected THEN selected \ {name} ELSE selected \cup {name}

\* enforce_mandatory: sl.select(name) for each mandatory name not selected
enforce_mandatory(selected, mandatory) == selected \cup mandatory

\* the wizard handled one key or message, and is now u
UiRan(op, u) ==
    /\ nops < MaxUi
    /\ nops' = nops + 1
    /\ ui' = u
    /\ last' = [NoOp EXCEPT !.op = op, !.ts = now]
    /\ prev' = last
    /\ UNCHANGED <<fs, now, pre, log, ev, taken>>

\* the wizard handled one key that ran an engine operation, which took the
\* filesystem to m, and is now u
UiRanEngine(op, u, m, app) ==
    /\ nops < MaxUi
    /\ nops' = nops + 1
    /\ ui' = u
    /\ fs' = m.fs
    /\ log' = m.log
    /\ ev' = m.ev
    /\ pre' = fs
    /\ last' = [op |-> op, app |-> app, src |-> NoPath, dest |-> NoPath, snap |-> NoPath,
                exc |-> m.exc, ts |-> now]
    /\ prev' = last
    /\ taken' = [taken EXCEPT !.since = Append(@, op)]
    /\ UNCHANGED now

\* a scope screen that goes from global and both straight to the options
ScopeTargetOptions(scope) ==
    IF scope \in {"global", "both"} THEN "options" ELSE scope

\* ScopeScreen.action_next lines 757-762: the screen pushed for a scope
ScopeTarget(scope) ==
    IF scope \in {"global", "both"} THEN "rules" ELSE scope

\* ScopeScreen.action_next: a new RulesScreen for global and both, a
\* RestoreScreen for restore, a ProjectScreen for project
ScopeNext ==
    /\ ui.screen = "scope"
    /\ \E scope \in {"global", "project", "both", "restore"} :
          UiRan("ScopeScreen.action_next",
                IF ScopeTarget(scope) = "rules"
                THEN [ui EXCEPT !.scope = scope, !.screen = "rules",
                                !.rules_list = Checked(ui.fresh_install, ui.rule_info),
                                !.rules_toggled = 0]
                ELSE [ui EXCEPT !.scope = scope, !.screen = ScopeTarget(scope)])

\* space or a click on a row of #rules-list: the list toggles the value
\* and posts SelectionToggled
RulesToggle ==
    /\ ui.screen = "rules"
    /\ \E name \in Values(ui.rule_info) :
          UiRan("rules-list.toggle",
                [ui EXCEPT !.rules_list = Toggle(@, name), !.rules_toggled = @ + 1])

\* RulesScreen.enforce_mandatory, on one SelectionToggled of #rules-list
RulesEnforce ==
    /\ ui.screen \in {"rules", "agents", "model", "options"}
    /\ ui.rules_toggled > 0
    /\ UiRan("RulesScreen.enforce_mandatory",
             [ui EXCEPT !.rules_list = enforce_mandatory(@, MANDATORY_RULES),
                        !.rules_toggled = @ - 1])

\* RulesScreen.action_next, bound to enter with priority: it runs when the
\* key arrives, whatever messages are in flight
RulesNext ==
    /\ ui.screen = "rules"
    /\ UiRan("RulesScreen.action_next",
             [ui EXCEPT !.selected_rules = ui.rules_list, !.rules_stored = TRUE,
                        !.screen = "agents",
                        !.agents_list = Checked(ui.fresh_install, ui.agent_info),
                        !.agents_toggled = 0])

\* RulesScreen.action_back: the screen is popped, its list gone with it
RulesBack ==
    /\ ui.screen = "rules"
    /\ UiRan("RulesScreen.action_back",
             [ui EXCEPT !.screen = "scope", !.rules_list = {}, !.rules_toggled = 0])

\* space or a click on a row of #agents-list
AgentsToggle ==
    /\ ui.screen = "agents"
    /\ \E name \in Values(ui.agent_info) :
          UiRan("agents-list.toggle",
                [ui EXCEPT !.agents_list = Toggle(@, name), !.agents_toggled = @ + 1])

\* AgentsScreen.enforce_mandatory, on one SelectionToggled of #agents-list
AgentsEnforce ==
    /\ ui.screen \in {"agents", "model", "options"}
    /\ ui.agents_toggled > 0
    /\ UiRan("AgentsScreen.enforce_mandatory",
             [ui EXCEPT !.agents_list = enforce_mandatory(@, MANDATORY_AGENTS),
                        !.agents_toggled = @ - 1])

\* AgentsScreen.action_next
AgentsNext ==
    /\ ui.screen = "agents"
    /\ UiRan("AgentsScreen.action_next",
             [ui EXCEPT !.selected_agents = ui.agents_list, !.agents_stored = TRUE,
                        !.screen = "model"])

\* AgentsScreen.action_back: back to the RulesScreen below, as it was left
AgentsBack ==
    /\ ui.screen = "agents"
    /\ UiRan("AgentsScreen.action_back",
             [ui EXCEPT !.screen = "rules", !.agents_list = {}, !.agents_toggled = 0])

\* ModelScreen.action_next
ModelNext ==
    /\ ui.screen = "model"
    /\ \E tok \in DOMAIN MODEL_CHOICES :
          UiRan("ModelScreen.action_next",
                [ui EXCEPT !.selected_model = tok, !.screen = "options"])

\* ModelScreen.action_back
ModelBack ==
    /\ ui.screen = "model"
    /\ UiRan("ModelScreen.action_back", [ui EXCEPT !.screen = "agents"])

\* the selection run_install reads from the app
AppOfUi(u) ==
    App(u.scope, u.selected_rules, u.selected_agents, u.create_global_tasks,
        u.create_project_tasks, u.auto_read, u.selected_model)

\* ResultScreen.compose: run_install(self.app)
ResultCompose(op, u) ==
    UiRanEngine(op, [u EXCEPT !.screen = "result"], run_install(Machine(fs), AppOfUi(u), now),
                AppOfUi(u))

\* the values of the project checkboxes: composed only in a repository, and
\* False where the query finds none
ProjectBoxes(u) == IF u.in_repo THEN BOOLEAN ELSE {FALSE}

\* OptionsScreen.action_install: the checkboxes are read (the project ones
\* exist for scope both in a repository), ResultScreen is pushed and composed
OptionsInstall ==
    /\ ui.screen = "options"
    /\ \E gt \in BOOLEAN,
          pt \in (IF ui.scope = "both" THEN ProjectBoxes(ui) ELSE {FALSE}),
          ar \in (IF ui.scope = "both" THEN ProjectBoxes(ui) ELSE {FALSE}) :
          ResultCompose("run_install",
                        [ui EXCEPT !.create_global_tasks = gt, !.create_project_tasks = pt,
                                   !.auto_read = ar])

\* OptionsScreen.action_back
OptionsBack ==
    /\ ui.screen = "options"
    /\ UiRan("OptionsScreen.action_back", [ui EXCEPT !.screen = "model"])

\* ProjectScreen.action_install
ProjectScreenInstall ==
    /\ ui.screen = "project"
    /\ \E pt \in ProjectBoxes(ui), ar \in ProjectBoxes(ui) :
          ResultCompose("run_install",
                        [ui EXCEPT !.create_project_tasks = pt, !.auto_read = ar])

\* ProjectScreen.action_back
ProjectScreenBack ==
    /\ ui.screen = "project"
    /\ UiRan("ProjectScreen.action_back", [ui EXCEPT !.screen = "scope"])

\* RestoreScreen.action_restore: restore_snapshot of the snapshot chosen from
\* the list compose got from discover_snapshots; it returns when there are none
RestoreScreenRestore ==
    /\ ui.screen = "restore"
    /\ discover_snapshots(fs) # <<>>
    /\ \E i \in 1..Len(discover_snapshots(fs)), order \in {"fwd", "rev"} :
          UiRanEngine("restore_snapshot", [ui EXCEPT !.screen = "restore_result"],
                      restore_snapshot(Machine(fs), SnapDir(discover_snapshots(fs)[i]),
                                       order, now),
                      NoApp)

\* RestoreScreen.action_back
RestoreScreenBack ==
    /\ ui.screen = "restore"
    /\ UiRan("RestoreScreen.action_back", [ui EXCEPT !.screen = "scope"])

\* the wizard starts on a tree of HomeTrees
InitWizard ==
    /\ \E h \in HomeTrees, c \in CwdTrees : fs = Merge(SourceTree, Merge(h, c))
    /\ now = 2
    /\ nops = 0
    /\ last = NoOp
    /\ prev = NoOp
    /\ pre = <<>>
    /\ log = <<>>
    /\ ev = <<>>
    /\ taken = NoSnapshot
    /\ ui = InstallerApp(fs)

NextWizard ==
    \/ ScopeNext
    \/ RulesToggle \/ RulesEnforce \/ RulesNext \/ RulesBack
    \/ AgentsToggle \/ AgentsEnforce \/ AgentsNext \/ AgentsBack
    \/ ModelNext \/ ModelBack \/ OptionsInstall \/ OptionsBack
    \/ ProjectScreenInstall \/ ProjectScreenBack
    \/ RestoreScreenRestore \/ RestoreScreenBack

SpecWizard == InitWizard /\ [][NextWizard]_vars

-----------------------------------------------------------------------------
(* SpecAutoRead: the project settings of a repository *)

ProjectSettings == Child(Child(CWD, ".claude"), "settings.json")

\* what .claude/settings.json of the repository holds: text that is no JSON,
\* the document of CwdRepo, the read permissions themselves, the same in
\* another order with one more, a document with other keys and a repeated
\* entry, documents without permissions or without allow, and documents
\* whose permissions, allow or top level are of another kind (one of them an
\* allow mapping with every read permission as a key)
ProjectContents ==
    {Raw("{"),
     Json(ProjectDoc),
     Json(AUTO_READ_PERMISSIONS),
     Json(D("permissions" :> D("allow" :> L(<<"Write">> \o Reverse(AUTO_READ_ALLOW))))),
     Json(D("permissions" :> D("allow" :> L(<<"Write", "Grep", "Write">>)
                               @@ "deny" :> L(<<"Bash(rm:*)">>)
                               @@ "defaultMode" :> S("plan"))
            @@ "env" :> D("K" :> S("v"))
            @@ "model" :> S("x"))),
     Json(EmptyDoc),
     Json(D("env" :> D("K" :> S("v")))),
     Json(D("permissions" :> D("deny" :> L(<<"Write">>)))),
     Json(D("permissions" :> S("all"))),
     Json(D("permissions" :> D("allow" :> S("Read")))),
     Json(D("permissions" :> D("allow" :> D([i \in {"x"} |-> S("on")])))),
     Json(D("permissions" :> D("allow" :>
                 D([tool \in {AUTO_READ_ALLOW[i] : i \in 1..Len(AUTO_READ_ALLOW)} |-> S("on")])))),
     Json(L(<<>>))}

\* the repository with each of these, and without the file
ProjectTrees ==
    {[CwdRepo EXCEPT ![ProjectSettings] = c] : c \in ProjectContents}
    \cup {Del(CwdRepo, {ProjectSettings}), Del(CwdRepo, {ProjectSettings, Parent(ProjectSettings)})}

InitAutoRead ==
    /\ \E h \in {<<>>, HomeStale}, c \in ProjectTrees : fs = Merge(SourceTree, Merge(h, c))
    /\ now = 2
    /\ nops = 0
    /\ last = NoOp
    /\ prev = NoOp
    /\ pre = <<>>
    /\ log = <<>>
    /\ ev = <<>>
    /\ taken = NoSnapshot
    /\ ui = NoUi

\* install_auto_read(cwd, log), called on its own
CallInstallAutoRead ==
    /\ nops < MaxCalls
    /\ Ran(install_auto_read(Machine(fs), CWD), "install_auto_read", NoApp,
           NoPath, ProjectSettings, NoPath)

\* run_install of scope project, with and without tasks and auto-read
ProjectInstall ==
    /\ nops < MaxCalls
    /\ \E tasks \in BOOLEAN, auto_read \in BOOLEAN :
          Ran(run_install(Machine(fs),
                          [DefaultApp EXCEPT !.scope = "project",
                                             !.create_project_tasks = tasks,
                                             !.auto_read = auto_read], now),
              "run_install",
              [DefaultApp EXCEPT !.scope = "project", !.create_project_tasks = tasks,
                                 !.auto_read = auto_read],
              NoPath, NoPath, NoPath)

NextAutoRead == CallInstallAutoRead \/ ProjectInstall

SpecAutoRead == InitAutoRead /\ [][NextAutoRead]_vars

\* the catalog item named n in directory src_dir is installed in dest_dir
\* when selected, and absent from it when not
ItemSynced(n, src_dir, dest_dir, selected) ==
    IF n \in selected
    THEN /\ Exists(fs, Child(dest_dir, n))
         /\ Bytes(fs, Child(dest_dir, n)) = Bytes(pre, Child(src_dir, n))
    ELSE ~Exists(fs, Child(dest_dir, n))

\* the files of rules/ and agents/ that are no catalog item: other names,
\* and the backups beside the items
OtherFiles(f) ==
    {p \in DOMAIN f :
        /\ IsFile(f, p)
        /\ \/ /\ Parent(p) = CLAUDE_RULES
              /\ ~(p.baks = <<>> /\ InSeq(p.parts[Len(p.parts)], discover_files(f, HOME_RULES_DIR)))
           \/ /\ Parent(p) = CLAUDE_AGENTS
              /\ ~(p.baks = <<>> /\ InSeq(p.parts[Len(p.parts)], discover_files(f, AGENTS_DIR)))}

\* C30: when run_install of scope global or both has completed, each rule
\* and agent of the catalog is at its destination with the source's bytes if
\* selected and absent if not, and every other file of rules/ and agents/
\* is as it was
GlobalInstallPostcondition ==
    (last.op = "run_install" /\ last.app.scope \in {"global", "both"} /\ ~last.exc) =>
        /\ \A i \in 1..Len(discover_files(pre, HOME_RULES_DIR)) :
              ItemSynced(discover_files(pre, HOME_RULES_DIR)[i], HOME_RULES_DIR,
                         CLAUDE_RULES, last.app.selected_rules)
        /\ \A i \in 1..Len(discover_files(pre, AGENTS_DIR)) :
              ItemSynced(discover_files(pre, AGENTS_DIR)[i], AGENTS_DIR,
                         CLAUDE_AGENTS, last.app.selected_agents)
        /\ \A p \in OtherFiles(pre) : p \in DOMAIN fs /\ fs[p] = pre[p]

\* the mandatory names of a catalog
MandatoryOf(info) == {info[i].name : i \in {j \in 1..Len(info) : info[j].mandatory}}

\* after a SelectionToggled has been handled, the list it came from holds
\* every mandatory name of its catalog
EnforcedAfterToggle ==
    /\ last.op = "RulesScreen.enforce_mandatory" => MandatoryOf(ui.rule_info) \subseteq ui.rules_list
    /\ last.op = "AgentsScreen.enforce_mandatory" => MandatoryOf(ui.agent_info) \subseteq ui.agents_list

\* C24: after each selection-toggle event handled on the rules list or the
\* agents list, every mandatory name of that catalog is in the selection, and
\* the sets RulesScreen.action_next and AgentsScreen.action_next store hold
\* every mandatory name
MandatoryAlwaysStored ==
    /\ EnforcedAfterToggle
    /\ last.op = "RulesScreen.action_next" => MandatoryOf(ui.rule_info) \subseteq ui.selected_rules
    /\ last.op = "AgentsScreen.action_next" => MandatoryOf(ui.agent_info) \subseteq ui.selected_agents

\* r is the reference merge of the mappings a and b: it has the keys of
\* both; under a key where both hold a mapping it is their reference merge,
\* under a key where both hold a list it is the de-duplicating append, and
\* under any other key it is b's value if b has the key, a's if not
RECURSIVE IsReferenceMerge(_, _, _)
IsReferenceMerge(a, b, r) ==
    /\ DOMAIN r = (DOMAIN a) \cup (DOMAIN b)
    /\ \A key \in DOMAIN r :
          CASE key \in DOMAIN a /\ key \in DOMAIN b /\ a[key].k = "d" /\ b[key].k = "d" ->
                   r[key].k = "d" /\ IsReferenceMerge(a[key].d, b[key].d, r[key].d)
            [] key \in DOMAIN a /\ key \in DOMAIN b /\ a[key].k = "l" /\ b[key].k = "l" ->
                   r[key].k = "l" /\ DeduplicatedAppend(a[key].l, b[key].l, r[key].l)
            [] OTHER -> r[key] = IF key \in DOMAIN b THEN b[key] ELSE a[key]

\* C31: what deep_merge_settings returns is the reference merge of base and
\* overlay: mappings met under a key are merged recursively, lists met under
\* a key get the de-duplicating append, and in every other case the
\* overlay's value is taken when the overlay has the key, the base's if not
MergeIsReference ==
    last.op = "deep_merge_settings" =>
        IsReferenceMerge(last.app.base.d, last.app.overlay.d, last.app.merged.d)

\* C31's case: one call where mappings met under permissions and lists under
\* permissions.allow, a scalar replaced a scalar under model, and env and
\* theme were on one side only
MergedEveryCase ==
    /\ last.op = "deep_merge_settings"
    /\ last.app.base = TemplateDoc
    /\ last.app.overlay = UserDoc
    /\ last.app.merged =
           D("env" :> D("AWS_PROFILE" :> S("default"))
             @@ "permissions" :> D("allow" :> L(<<"Read", "Grep">>)
                                   @@ "defaultMode" :> S("default"))
             @@ "model" :> S("x")
             @@ "theme" :> S("dark"))

\* C34: after any call of deep_merge_settings, base and overlay, with their
\* nested mappings and lists, are what they were before the call
MergeLeavesArguments ==
    last.op = "deep_merge_settings" =>
        /\ last.app.base_after = last.app.base
        /\ last.app.overlay_after = last.app.overlay

\* the existing document's value under key is a mapping, or it has none
MappingOrAbsent(key) ==
    key \in DOMAIN SettingsExisting.d => SettingsExisting.d[key].k = "d"

\* the mappings under env and permissions: the template's, the existing
\* document's, the produced document's
EnvOf(doc) == DictOf(At(doc, "env"))
PermsOf(doc) == DictOf(At(doc, "permissions"))

\* C32: for an existing document whose env and permissions are mappings,
\* the produced document has (i) the template's value for every scalar key
\* of the template's env, (ii) a list under allow, deny and ask holding every
\* element of the template's list, (iii) the template's defaultMode and
\* disableBypassPermissionsMode when the template has them; any other scalar
\* key of permissions that both define keeps the existing value
TemplateKeysForced ==
    (SettingsMerged /\ MappingOrAbsent("env") /\ MappingOrAbsent("permissions")) =>
        /\ \A key \in DOMAIN EnvOf(SettingsTemplate) :
              EnvOf(SettingsTemplate)[key].k = "s" =>
                  At(At(SettingsProduced, "env"), key) = EnvOf(SettingsTemplate)[key]
        /\ \A key \in PermListKeys \cap DOMAIN PermsOf(SettingsTemplate) :
              /\ key \in DOMAIN PermsOf(SettingsProduced)
              /\ PermsOf(SettingsProduced)[key].k = "l"
              /\ HoldsItems(PermsOf(SettingsProduced)[key], PermsOf(SettingsTemplate)[key].l)
        /\ \A key \in PermScalarKeys \cap DOMAIN PermsOf(SettingsTemplate) :
              At(At(SettingsProduced, "permissions"), key) = PermsOf(SettingsTemplate)[key]
        /\ \A key \in ((DOMAIN PermsOf(SettingsTemplate)) \cap (DOMAIN PermsOf(SettingsExisting)))
                          \ (PermListKeys \cup PermScalarKeys) :
              (PermsOf(SettingsTemplate)[key].k = "s" /\ PermsOf(SettingsExisting)[key].k = "s") =>
                  At(At(SettingsProduced, "permissions"), key) = PermsOf(SettingsExisting)[key]

\* the files and directories install_global_settings made
SettingsMade == (DOMAIN fs) \ (DOMAIN pre)

\* C33: when the settings template cannot be read or parsed,
\* install_global_settings returns, having appended one warning entry and
\* nothing else; the settings document and the helper script are as they
\* were, and no backup was made
BrokenTemplateWarns ==
    (last.op = "install_global_settings" /\ ~Parses(pre, HOME_SETTINGS_JSON)) =>
        /\ ~last.exc
        /\ Len(log) = 1
        /\ log[1].status = "warning"
        /\ Bytes(fs, CLAUDE_SETTINGS) = Bytes(pre, CLAUDE_SETTINGS)
        /\ Bytes(fs, CLAUDE_STATUSLINE) = Bytes(pre, CLAUDE_STATUSLINE)
        /\ SettingsMade \subseteq {CLAUDE_HOME} \cup Ancestors(CLAUDE_HOME)
        /\ \A p \in DOMAIN pre : p \in DOMAIN fs /\ fs[p] = pre[p]

\* line i of lines is inside an HTML comment: a comment on one line, or from
\* a line that opens a comment to the first later line that closes it
InComment(lines, i) ==
    \/ lines[i] = "c"
    \/ \E a \in 1..i, b \in i..Len(lines) :
          /\ a < b
          /\ lines[a] = "<!--"
          /\ lines[b] = "-->"
          /\ \A h \in (a + 1)..(i - 1) : lines[h] # "-->"

\* the file at path exists and has a non-blank line that is no heading and is
\* not inside an HTML comment
HasUserContent(f, path) ==
    /\ Exists(f, path)
    /\ \E i \in 1..Len(Data(f[path]).lines) :
          /\ Data(f[path]).lines[i] \notin {"", "#"}
          /\ ~InComment(Data(f[path]).lines, i)

\* the log has an entry of this status for path
Logged(status, path) == \E i \in 1..Len(log) : log[i].status = status /\ log[i].label = path

\* the task templates were handled in tasks_dir as the claim has it
TasksHandled(tasks_dir) ==
    \A i \in 1..Len(TaskTemplates) :
        IF HasUserContent(pre, Child(tasks_dir, TaskTemplates[i]))
        THEN /\ fs[Child(tasks_dir, TaskTemplates[i])] = pre[Child(tasks_dir, TaskTemplates[i])]
             /\ Logged("skipped", Child(tasks_dir, TaskTemplates[i]))
             /\ ~Logged("installed", Child(tasks_dir, TaskTemplates[i]))
        ELSE /\ Bytes(fs, Child(tasks_dir, TaskTemplates[i]))
                    = Bytes(pre, Child(TASKS_DIR, TaskTemplates[i]))
             /\ Logged("installed", Child(tasks_dir, TaskTemplates[i]))
             /\ ~Logged("skipped", Child(tasks_dir, TaskTemplates[i]))

\* C35: when run_install creates task templates, a lessons.md or todo.md
\* that exists with content is left as it is and logged as skipped; any
\* other is replaced by the template and logged as installed
TasksKeepUserContent ==
    (last.op = "run_install" /\ ~last.exc) =>
        /\ (last.app.scope \in {"global", "both"} /\ last.app.create_global_tasks) =>
               TasksHandled(CLAUDE_TASKS)
        /\ (last.app.scope \in {"project", "both"} /\ last.app.create_project_tasks
                /\ is_git_repo(pre, CWD)) =>
               TasksHandled(Child(CWD, "tasks"))

\* C35's case: one run kept the user's lessons.md and replaced a todo.md
\* that held a heading and a comment, in ~/.claude/tasks, and in the
\* repository replaced a lessons.md that held a heading and kept todo.md
TasksKeptAndReplaced ==
    /\ last.op = "run_install" /\ ~last.exc /\ last.app.scope = "both"
    /\ last.app.create_global_tasks /\ last.app.create_project_tasks
    /\ HasUserContent(pre, Child(CLAUDE_TASKS, "lessons.md"))
    /\ Bytes(fs, Child(CLAUDE_TASKS, "lessons.md")) = Bytes(pre, Child(CLAUDE_TASKS, "lessons.md"))
    /\ Bytes(pre, Child(CLAUDE_TASKS, "todo.md")) = Text(<<"#", "<!--", "x", "-->">>)
    /\ Bytes(fs, Child(CLAUDE_TASKS, "todo.md")) = Bytes(fs, Child(TASKS_DIR, "todo.md"))
    /\ Bytes(pre, Child(Child(CWD, "tasks"), "lessons.md")) = Text(<<"#">>)
    /\ Bytes(fs, Child(Child(CWD, "tasks"), "lessons.md")) = Bytes(fs, Child(TASKS_DIR, "lessons.md"))
    /\ Bytes(pre, Child(Child(CWD, "tasks"), "todo.md")) = Text(<<"x">>)
    /\ Bytes(fs, Child(Child(CWD, "tasks"), "todo.md")) = Text(<<"x">>)

\* the project settings document install_auto_read read ({} for a file that
\* is absent or does not parse) and the one in the file when it returned
AutoReadExisting == IF Parses(pre, ProjectSettings) THEN Data(pre[ProjectSettings]).v ELSE EmptyDoc
AutoReadProduced == Data(fs[ProjectSettings]).v

\* permissions.allow of a document, the empty list where it has none
AllowOf(doc) ==
    IF Get(PermsOf(doc), "allow", L(<<>>)).k = "l"
    THEN Get(PermsOf(doc), "allow", L(<<>>)).l
    ELSE <<>>

\* install_auto_read called once more, now
AutoReadAgain == install_auto_read(Machine(fs), CWD)

\* C36: after install_auto_read returns, permissions.allow of the project
\* settings holds every auto-approve read permission, the entries it held
\* before come first and in their order, every other key of the document is
\* unchanged, and a second call logs current and writes nothing
AutoReadOnlyAdds ==
    (last.op = "install_auto_read" /\ ~last.exc) =>
        /\ Parses(fs, ProjectSettings)
        /\ \A i \in 1..Len(AUTO_READ_ALLOW) :
              Contains(At(At(AutoReadProduced, "permissions"), "allow"), AUTO_READ_ALLOW[i])
        /\ At(At(AutoReadExisting, "permissions"), "allow").k = "d" =>
               AutoReadProduced = AutoReadExisting
        /\ Len(AllowOf(AutoReadProduced)) >= Len(AllowOf(AutoReadExisting))
        /\ SubSeq(AllowOf(AutoReadProduced), 1, Len(AllowOf(AutoReadExisting)))
               = AllowOf(AutoReadExisting)
        /\ \A i \in (Len(AllowOf(AutoReadExisting)) + 1)..Len(AllowOf(AutoReadProduced)) :
              /\ InSeq(AllowOf(AutoReadProduced)[i], AUTO_READ_ALLOW)
              /\ ~InSeq(AllowOf(AutoReadProduced)[i], AllowOf(AutoReadExisting))
        /\ DOMAIN AutoReadProduced.d = (DOMAIN AutoReadExisting.d) \cup {"permissions"}
        /\ \A key \in (DOMAIN AutoReadExisting.d) \ {"permissions"} :
              AutoReadProduced.d[key] = AutoReadExisting.d[key]
        /\ DOMAIN PermsOf(AutoReadProduced) = (DOMAIN PermsOf(AutoReadExisting)) \cup {"allow"}
        /\ \A key \in (DOMAIN PermsOf(AutoReadExisting)) \ {"allow"} :
              PermsOf(AutoReadProduced)[key] = PermsOf(AutoReadExisting)[key]
        /\ ~AutoReadAgain.exc
        /\ AutoReadAgain.fs = fs
        /\ Len(AutoReadAgain.log) = 1
        /\ AutoReadAgain.log[1].status = "current"

\* C36's case: a document with env, model, deny, defaultMode and the allow
\* list [Write, Grep, Write] got the six permissions it lacked after these
\* three, and kept the rest
AutoReadAdded ==
    /\ last.op = "install_auto_read" /\ ~last.exc
    /\ AllowOf(AutoReadExisting) = <<"Write", "Grep", "Write">>
    /\ AllowOf(AutoReadProduced)
           = <<"Write", "Grep", "Write", "Read", "Glob", "Bash(ls:*)", "Bash(git diff:*)",
               "Bash(git log:*)", "Bash(git status:*)">>
    /\ At(AutoReadProduced, "model") = S("x")
    /\ At(At(AutoReadProduced, "permissions"), "deny") = L(<<"Bash(rm:*)">>)
    /\ log[1].status = "installed"

\* the part of the filesystem under ~/.claude (backups and snapshots with
\* it), and the part under the working directory
Under(f, root) == [p \in {q \in DOMAIN f : q.root = root} |-> f[p]]

\* the log entries and the mutations of the last run that name a path under
\* the working directory
CwdEntries == SelectSeq(log, LAMBDA e : e.label.root = "cwd")
CwdEvents == SelectSeq(ev, LAMBDA e : e.a # "log" /\ e.p.root = "cwd")

\* C37: run_install of scope project takes no snapshot and leaves all of
\* ~/.claude as it was; outside a git repository the project part changes
\* nothing and logs one skipped entry; run_install of scope global leaves the
\* working directory as it was
ScopesIsolated ==
    last.op = "run_install" =>
        /\ last.app.scope = "project" =>
               /\ SnapOf(ev) = NoPath
               /\ \A i \in 1..Len(log) : log[i].status # "snapshot"
               /\ Under(fs, "home") = Under(pre, "home")
        /\ (last.app.scope \in {"project", "both"} /\ ~is_git_repo(pre, CWD) /\ ~last.exc) =>
               /\ Under(fs, "cwd") = Under(pre, "cwd")
               /\ CwdEvents = <<>>
               /\ Len(CwdEntries) = 1
               /\ CwdEntries[1].status = "skipped"
        /\ last.app.scope = "global" =>
               /\ Under(fs, "cwd") = Under(pre, "cwd")
               /\ CwdEvents = <<>>
               /\ CwdEntries = <<>>

\* C37's case: a run of scope project in a repository wrote the project's
\* files beside an installation in ~/.claude, after a run of scope global
\* that changed ~/.claude
ProjectRunBesideGlobal ==
    /\ last.op = "run_install" /\ last.app.scope = "project" /\ ~last.exc
    /\ prev.op = "run_install" /\ prev.app.scope = "global"
    /\ is_git_repo(pre, CWD)
    /\ Under(fs, "cwd") # Under(pre, "cwd")
    /\ Exists(pre, CLAUDE_MD)
    /\ \E p \in DOMAIN fs : p.root = "home" /\ p.snap # 0

\* the selection that is equivalent to the flags of the last run_cli: every
\* rule and agent of the catalog, the same scope, model, task and auto-read
\* choices
EquivalentApp ==
    App(CliScope(last.app), NamesOf(discover_files(pre, HOME_RULES_DIR)),
        NamesOf(discover_files(pre, AGENTS_DIR)), ~last.app.no_tasks, ~last.app.no_tasks,
        last.app.auto_read, last.app.model)

\* run_install with that selection, from the filesystem and at the second
\* the last run_cli started
CliAsInstall == run_install(Machine(pre), EquivalentApp, last.ts)

\* a log without its snapshot entries
WithoutSnapshot(entries) == SelectSeq(entries, LAMBDA e : e.status # "snapshot")

\* C38: run_cli and run_install with the equivalent selection, started from
\* the same filesystem, end with the same filesystem and the same log entries
\* apart from the snapshot entry, and run_cli logs no removed entry
FrontEndsAgree ==
    last.op = "run_cli" =>
        /\ CliAsInstall.fs = fs
        /\ CliAsInstall.exc = last.exc
        /\ WithoutSnapshot(CliAsInstall.log) = log
        /\ \A i \in 1..Len(log) : log[i].status \notin {"removed", "snapshot"}

\* C38's case: run_cli --both in a repository over a stale installation;
\* run_install logged the snapshot besides, and both updated files
CliOverStale ==
    /\ last.op = "run_cli" /\ ~last.exc /\ CliScope(last.app) = "both"
    /\ is_git_repo(pre, CWD)
    /\ \E i \in 1..Len(log) : log[i].status = "updated"
    /\ \E i \in 1..Len(log) : log[i].label.root = "cwd" /\ log[i].status = "installed"
    /\ Len(CliAsInstall.log) = Len(log) + 1
    /\ CliAsInstall.log[1].status = "snapshot"

\* C39: in the wizard run_install runs only as the result screen is composed,
\* with the selection the app holds; with scope global or both that is after
\* RulesScreen.action_next and AgentsScreen.action_next have stored their
\* sets; with scope project nothing under ~/.claude is installed or removed;
\* with scope restore the result screen is never reached
WizardOrder ==
    /\ last.op = "run_install" => ui.screen = "result" /\ last.app = AppOfUi(ui)
    /\ ui.screen = "result" =>
           /\ last.op = "run_install"
           /\ ui.scope \in {"global", "both", "project"}
           /\ ui.scope \in {"global", "both"} => ui.rules_stored /\ ui.agents_stored
           /\ ui.scope = "project" =>
                  /\ Under(fs, "home") = Under(pre, "home")
                  /\ \A i \in 1..Len(log) : log[i].label.root # "home"
    /\ ui.scope = "restore" => ui.screen \in {"scope", "restore", "restore_result"}
    /\ ui.screen = "restore_result" => last.op = "restore_snapshot"

\* C39's case: scope both, through the rules, agents, model and options
\* screens to the result screen, where run_install installed the stored
\* selection
WizardInstalledBoth ==
    /\ ui.screen = "result" /\ ui.scope = "both"
    /\ ui.rules_stored /\ ui.agents_stored
    /\ last.op = "run_install" /\ ~last.exc
    /\ last.app.selected_rules = ui.selected_rules
    /\ "security.md" \in ui.selected_rules
    /\ Bytes(fs, Child(CLAUDE_RULES, "security.md")) = Bytes(fs, Child(HOME_RULES_DIR, "security.md"))
    /\ Bytes(pre, Child(CLAUDE_RULES, "security.md")) # Bytes(fs, Child(HOME_RULES_DIR, "security.md"))

====
